---- MODULE Spec2Model ----
(***************************************************************************)
(* mvt-reader: the geometry command-stream decoders (the streaming         *)
(* GeometryIterator of src/geometry.rs and the eager parse_geometry of     *)
(* src/lib.rs and src/geometry.rs), the lazy FeatureIterator and the       *)
(* eager Reader::get_features, Reader::get_layer_names, parse_tags and the *)
(* coordinate storage.  Each part has its own specification over the same  *)
(* variables: Spec and SpecCursor (one GeometryIterator and the eager      *)
(* decoders), SpecRings (the same on rings far from the origin), SpecTwo   *)
(* (two GeometryIterators), SpecLayer and SpecTile (the Reader), SpecTags  *)
(* (parse_tags), SpecStorage (the storage), SpecZigzag (the decoding of    *)
(* one parameter integer, bit by bit), SpecFair (a GeometryIterator whose  *)
(* caller keeps calling next), SpecTrunc (a GeometryIterator over a stream *)
(* cut anywhere) and SpecTransform (a GeometryIterator with one of several *)
(* coordinate transforms).                                                 *)
(*                                                                         *)
(* Coordinates are f32 in the source.  Every coordinate is an integer, so  *)
(* each f32 operation is modelled as the exact integer operation followed  *)
(* by rounding to a 24-bit significand; areas are carried DOUBLED (the     *)
(* source's "/ 2.0" and "* 0.5" are exact and are left out, they change no *)
(* sign and no comparison with 0.0).                                       *)
(***************************************************************************)
EXTENDS Integers, Sequences, FiniteSets, TLC

VARIABLES
  geometry_data,        \* GeometryIterator.geometry_data: the borrowed command stream
  geom_type,            \* GeometryIterator.geom_type
  transformer,          \* GeometryIterator.transform: which CoordinateTransform it is
  position,             \* GeometryIterator.position
  cursor,               \* GeometryIterator.cursor, <<x, y>>
  current_coordinates,  \* GeometryIterator.current_coordinates (a CoordinateStorage)
  pending_rings,        \* GeometryIterator.pending_rings
  state,                \* GeometryIterator.state (ParserState)
  result,               \* what the last call of next() returned
  yielded,              \* history: the Some(..) items returned so far, in order
  closed,               \* history: the rings swapped out by ClosePath so far, in order
  empty_closes,         \* history: ClosePath commands read on an empty accumulator
  track,                \* history: one entry per cursor addition made by next()
  events,               \* history: one entry per command integer read and per finish_parsing
  transforms,           \* history: one entry per call of transform made by next()
  advances,             \* history: number of next() calls made
  eager,                \* result of the last parse_geometry call (lib.rs / geometry.rs)
  layers,               \* Reader.tile.layers
  idx,                  \* FeatureIterator.idx (over layers[1])
  returned,             \* history: the features FeatureIterator::next returned so far
  iter_result,          \* what the last FeatureIterator::next call returned
  drained,              \* history: FeatureIterator::next has returned None at least once
  features_result,      \* what the last Reader::get_features call returned
  names_result,         \* what the last Reader::get_layer_names call returned
  feature_tags,         \* parse_tags: the tags argument
  layer_keys,           \* parse_tags: the keys argument
  layer_values,         \* parse_tags: the values argument
  tags_result,          \* what the last parse_tags call returned
  input_points,         \* the coordinates pushed into storage, in order
  storage,              \* a FlatCoordinateStorage of its own
  other,                \* a second GeometryIterator over geometry_data and geom_type
  parameter_integer,    \* parse_next: a parameter integer, as a 32-bit word
  decoded_integer       \* parse_next: the integer_value decoded from it, as an Option

decoder_vars == <<geometry_data, geom_type, transformer, position, cursor,
                  current_coordinates, pending_rings, state, result, yielded, closed,
                  empty_closes, track, events, transforms, advances, eager>>
reader_vars == <<layers, idx, returned, iter_result, drained, features_result,
                 names_result>>
tags_vars == <<feature_tags, layer_keys, layer_values, tags_result>>
storage_vars == <<input_points, storage>>
zigzag_vars == <<parameter_integer, decoded_integer>>
aux_vars == <<tags_vars, storage_vars, other, zigzag_vars>>
vars == <<decoder_vars, reader_vars, aux_vars>>

----------------------------------------------------------------------------
(* Bounds and program constants *)

MaxSegs == 3          \* a stream is the concatenation of at most MaxSegs fragments
MaxFeatures == 2      \* features per layer
MaxNones == 2         \* next() calls followed after a GeometryIterator has returned None
MaxErrors == 2        \* next() calls followed on a GeometryIterator of kind Unknown

DIMENSION == 2
I32Max == 2147483647

I32Min == -I32Max - 1

----------------------------------------------------------------------------
(* Small helpers *)

RECURSIVE Flatten(_)
Flatten(ss) == IF ss = <<>> THEN <<>> ELSE Head(ss) \o Flatten(Tail(ss))

SeqsUpTo(S, n) == UNION { [1..k -> S] : k \in 0..n }

Last(s) == s[Len(s)]

----------------------------------------------------------------------------
(* GeomType and the results *)

GeomTypes == {"Unknown", "Point", "Linestring", "Polygon"}

NoneResult == [kind |-> "none"]
GeometryError == [kind |-> "err", error |-> "GeometryError"]
OkResult(g) == [kind |-> "ok", geom |-> g]

PointGeom(x, y) == [type |-> "Point", x |-> x, y |-> y]
LineStringGeom(s) == [type |-> "LineString", line |-> s]
PolygonGeom(e, h) == [type |-> "Polygon", exterior |-> e, holes |-> h]

----------------------------------------------------------------------------
(* f32: every coordinate is an integer-valued f32, so the IEEE result of     *)
(* +, - and * on coordinates is the exact integer result rounded to f32.     *)
(* All intermediate values are kept inside the 32-bit integers of TLC.       *)

\* the spacing of the f32 values around magnitude m: 1 below 2^24, doubling
\* with every further binary digit
RECURSIVE f32_step(_, _)
f32_step(m, st) == IF m \div st < 16777216 THEN st ELSE f32_step(m, 2 * st)

\* The f32 value 2^31, which an i32 above 2^31-65 casts to.  It is carried as
\* 2^31-1: no f32 has that value (f32 values of this size are multiples of
\* 128), so the encoding identifies no two different f32 values.
F32_2p31 == I32Max

\* i32 as f32: round to nearest, ties to even, on a 24-bit significand
as_f32(v) ==
  IF v = I32Min THEN I32Min
  ELSE LET m == IF v < 0 THEN -v ELSE v
           st == f32_step(m, 1)
           q == m \div st
           r == m % st
           up == (2 * r > st) \/ (2 * r = st /\ q % 2 = 1)
       IN IF up /\ q + 1 = 16777216 /\ st = 128
          THEN (IF v < 0 THEN I32Min ELSE F32_2p31)
          ELSE LET mag == (IF up THEN q + 1 ELSE q) * st
               IN IF v < 0 THEN -mag ELSE mag

\* the result of one f32 operation whose exact result is the integer v
f32_op(v) == as_f32(v)

----------------------------------------------------------------------------
(* CoordinateStorage (FlatCoordinateStorage): coords is the list of raw     *)
(* <<x, y>> pairs, accumulated_area the running open-path shoelace sum.     *)
(* The sum is carried while every coordinate is within CoordLimit, which    *)
(* keeps each product and the sum inside the integers of TLC; beyond that   *)
(* area_known is FALSE and the area of the storage is not modelled.         *)

CoordLimit == 8192    \* largest coordinate magnitude whose shoelace terms are carried

Carried(v) == -CoordLimit <= v /\ v <= CoordLimit

new_empty == [coords |-> <<>>, accumulated_area |-> 0, area_known |-> TRUE]

is_empty(s) == Len(s.coords) = 0

\* Option<(f32, f32)> as a sequence of length <= 1
first(s) == IF Len(s.coords) >= 1 THEN <<s.coords[1]>> ELSE <<>>

last(s) == IF Len(s.coords) >= 1 THEN <<s.coords[Len(s.coords)]>> ELSE <<>>

push(s, x, y) ==
  LET known == /\ s.area_known
               /\ Carried(x) /\ Carried(y)
               /\ -536870912 <= s.accumulated_area /\ s.accumulated_area <= 536870912
  IN [coords |-> Append(s.coords, <<x, y>>),
      accumulated_area |->
        IF ~known THEN 0
        ELSE IF last(s) # <<>>
             THEN f32_op(f32_op(s.accumulated_area + f32_op(last(s)[1][1] * y))
                         - f32_op(x * last(s)[1][2]))
             ELSE s.accumulated_area,
      area_known |-> known]

\* twice the value the source returns; not modelled (no integer) when the
\* storage holds a coordinate beyond CoordLimit
get_accumulated_area(s) ==
  IF Len(s.coords) >= 2
  THEN IF s.area_known
       THEN f32_op(f32_op(s.accumulated_area + f32_op(last(s)[1][1] * first(s)[1][2]))
                   - f32_op(first(s)[1][1] * last(s)[1][2]))
       ELSE "not modelled"
  ELSE 0

----------------------------------------------------------------------------
(* Integer decoding *)

\* A 32-bit word (u32 or i32) is a function from the bit positions 0..31, bit 0
\* the least significant, to {0, 1}; an i32 is in two's complement.
RECURSIVE Pow2(_)
Pow2(i) == IF i = 0 THEN 1 ELSE 2 * Pow2(i - 1)

\* the value of the bits 0..i-1 of w
RECURSIVE LowValue(_, _)
LowValue(w, i) == IF i = 0 THEN 0 ELSE LowValue(w, i - 1) + w[i - 1] * Pow2(i - 1)

\* the i32 a word stands for
i32_value(w) == IF w[31] = 1 THEN (LowValue(w, 31) - I32Max) - 1 ELSE LowValue(w, 31)

\* the word of an i32
i32_word(n) ==
  LET low == IF n < 0 THEN (n + I32Max) + 1 ELSE n
  IN [i \in 0..31 |-> IF i = 31 THEN (IF n < 0 THEN 1 ELSE 0) ELSE (low \div Pow2(i)) % 2]

\* the u32 hi * 2^16 + lo
u32_word(hi, lo) ==
  [i \in 0..31 |-> IF i < 16 THEN (lo \div Pow2(i)) % 2 ELSE (hi \div Pow2(i - 16)) % 2]

\* w >> n on u32
u32_shr(w, n) == [i \in 0..31 |-> IF i + n <= 31 THEN w[i + n] ELSE 0]

\* w >> n on i32
i32_shr(w, n) == [i \in 0..31 |-> IF i + n <= 31 THEN w[i + n] ELSE w[31]]

\* w << n
word_shl(w, n) == [i \in 0..31 |-> IF i >= n THEN w[i - n] ELSE 0]

\* w & v
word_and(w, v) == [i \in 0..31 |-> IF w[i] = 1 /\ v[i] = 1 THEN 1 ELSE 0]

\* w ^ v
word_xor(w, v) == [i \in 0..31 |-> IF w[i] # v[i] THEN 1 ELSE 0]

\* -w on i32 in two's complement: every bit above the lowest set bit is inverted
i32_neg(w) ==
  [i \in 0..31 |-> IF \E j \in 0..(i - 1) : w[j] = 1 THEN 1 - w[i] ELSE w[i]]

zigzag_u32_unsigned(parameter) == i32_value(u32_shr(parameter, 1))

\* ((parameter_integer >> 1) as i32) ^ -((parameter_integer & 1) as i32)
zigzag_u32(parameter) ==
  i32_value(word_xor(u32_shr(parameter, 1),
                     i32_neg(word_and(parameter, u32_word(0, 1)))))

\* ((p >> 1) as i32) ^ -((p & 1) as i32), on a p below 2^31 given as a number
zigzag(p) == IF p % 2 = 1 THEN -(p \div 2) - 1 ELSE p \div 2

\* the exact sum a + b lies above i32::MAX / below i32::MIN
Overflows(a, b) == b > 0 /\ a > I32Max - b

Underflows(a, b) == b < 0 /\ a < I32Min - b

saturating_add_absolute(a, b) == b

saturating_add(a, b) ==
  IF Overflows(a, b) THEN I32Max
  ELSE IF Underflows(a, b) THEN I32Min
  ELSE a + b

checked_add_clip_min(a, b) ==
  IF Overflows(a, b) \/ Underflows(a, b) THEN I32Min ELSE a + b

\* match a.checked_add(b) { Some(r) => r, None => i32::MAX }
checked_add_clip(a, b) ==
  IF Overflows(a, b) \/ Underflows(a, b) THEN I32Max ELSE a + b

\* IdentityTransform::transform
IdentityTransform_transform(x, y, kind) == <<x, y>>

\* IdentityTransform3D::transform
IdentityTransform3D_transform(x, y, kind) == <<x, y, 0>>

\* ScaleTransform { scale: 1.5 }.transform: (x * scale + 0.5, y * scale + 0.5),
\* each operation rounded; its outputs are carried DOUBLED
ScaleTransform_transform(x, y, kind) ==
  <<f32_op(f32_op(3 * x) + 1), f32_op(f32_op(3 * y) + 1)>>

Transforms == {"IdentityTransform", "IdentityTransform3D", "ScaleTransform"}

\* self.transform.transform(x, y, &self.geom_type)
transform(x, y, kind) ==
  CASE transformer = "IdentityTransform" -> IdentityTransform_transform(x, y, kind)
    [] transformer = "IdentityTransform3D" -> IdentityTransform3D_transform(x, y, kind)
    [] transformer = "ScaleTransform" -> ScaleTransform_transform(x, y, kind)

\* history entry of one call of transform
Transformed(x, y, kind) == [x |-> x, y |-> y, geom_type |-> kind]

----------------------------------------------------------------------------
(* GeometryIterator *)

Initial == [name |-> "Initial", count |-> 0, command_id |-> 0]
ReadingCommand == [name |-> "ReadingCommand", count |-> 0, command_id |-> 0]
ReadingParameters(count, command_id) ==
  [name |-> "ReadingParameters", count |-> count, command_id |-> command_id]
Finished == [name |-> "Finished", count |-> 0, command_id |-> 0]

\* GeometryIterator::new
GeometryIterator_new ==
  [position |-> 0, cursor |-> <<0, 0>>, current_coordinates |-> new_empty,
   pending_rings |-> <<>>, state |-> Initial, closed |-> <<>>, empty_closes |-> 0,
   track |-> <<>>, events |-> <<>>, transforms |-> <<>>]

Return(self, res) == [self |-> self, result |-> res]

\* history entry of one command integer read (event = "command") or of one call of
\* finish_parsing (event = "finish"): where the stream was, the command id and count
\* decoded, the cursor, accumulator and pending rings found, the number of cursor
\* additions made so far, and what the handling of the entry itself returned
\* (NoneResult while decoding goes on)
Event(event, s, id, count) ==
  [event |-> event, at |-> s.position, id |-> id, count |-> count, cursor |-> s.cursor,
   acc |-> s.current_coordinates, pending |-> s.pending_rings, ntrack |-> Len(s.track),
   res |-> NoneResult]

\* a return out of the handling of the last entry of the history
ReturnFrom(self, res) ==
  Return([self EXCEPT !.events[Len(self.events)].res = res], res)

finish_parsing_stay(kind, s) ==
  LET f == [s EXCEPT !.events = Append(@, Event("finish", s, 0, 0))] IN
  IF kind = "Linestring" /\ ~is_empty(s.current_coordinates)
  THEN ReturnFrom(f, OkResult(LineStringGeom(s.current_coordinates)))
  ELSE ReturnFrom(f, NoneResult)

finish_parsing_norings(kind, s) ==
  LET f == [s EXCEPT !.state = Finished,
                     !.events = Append(@, Event("finish", s, 0, 0))] IN
  CASE kind = "Linestring" ->
         IF ~is_empty(s.current_coordinates)
         THEN ReturnFrom([f EXCEPT !.current_coordinates = new_empty],
                         OkResult(LineStringGeom(s.current_coordinates)))
         ELSE ReturnFrom(f, NoneResult)
    [] OTHER -> ReturnFrom(f, NoneResult)

finish_parsing(kind, s) ==
  LET f == [s EXCEPT !.state = Finished,
                     !.events = Append(@, Event("finish", s, 0, 0))] IN
  CASE kind = "Linestring" ->
         IF ~is_empty(s.current_coordinates)
         THEN ReturnFrom([f EXCEPT !.current_coordinates = new_empty],
                         OkResult(LineStringGeom(s.current_coordinates)))
         ELSE ReturnFrom(f, NoneResult)
    [] kind = "Point" -> ReturnFrom(f, NoneResult)
    [] kind = "Polygon" ->
         IF s.pending_rings # <<>>
         THEN ReturnFrom([f EXCEPT !.pending_rings = <<>>],
                         OkResult(PolygonGeom(Head(s.pending_rings), Tail(s.pending_rings))))
         ELSE ReturnFrom(f, NoneResult)
    [] OTHER -> ReturnFrom(f, NoneResult)

FlushPending_noholes(rings) == PolygonGeom(Head(rings), <<>>)

\* the polygon flushed when a later ring has positive area
FlushPending(rings) == PolygonGeom(Head(rings), Tail(rings))

RingStartsPolygon_ge(area) == area >= 0

\* area > 0.0
RingStartsPolygon(area) == area > 0

RECURSIVE Loop(_, _, _)
RECURSIVE ReadParams(_, _, _, _)

Finished_arm_rewind(s) == Return([s EXCEPT !.position = 0], NoneResult)

\* ParserState::Finished => return None
Finished_arm(s) == Return(s, NoneResult)

take_ring_reset(s) == [s EXCEPT !.current_coordinates = new_empty, !.cursor = <<0, 0>>]

\* let mut ring = S::new_empty(); std::mem::swap(&mut ring, &mut self.current_coordinates)
take_ring(s) == [s EXCEPT !.current_coordinates = new_empty]

ClosePathFails_never(s) == FALSE

\* self.current_coordinates.first().is_none()
ClosePathFails(s) == first(s.current_coordinates) = <<>>

\* the ClosePath arm of ReadingCommand; s already has the command consumed
ClosePath(data, kind, s) ==
  IF ClosePathFails(s)
  THEN ReturnFrom(s, GeometryError)
  ELSE LET ring == s.current_coordinates
           t == [take_ring(s) EXCEPT !.closed = Append(@, ring),
                                     !.state = ReadingCommand]
       IN IF s.pending_rings = <<>>
          THEN Loop(data, kind, [t EXCEPT !.pending_rings = <<ring>>])
          ELSE IF RingStartsPolygon(get_accumulated_area(ring))
               THEN IF kind = "Polygon"
                    THEN ReturnFrom([t EXCEPT !.pending_rings = <<ring>>],
                                    OkResult(FlushPending(s.pending_rings)))
                    ELSE Loop(data, kind, [t EXCEPT !.pending_rings = <<ring>>])
               ELSE Loop(data, kind, [t EXCEPT !.pending_rings = Append(@, ring)])

MoveToFlushes_always(kind, s) == kind = "Linestring"

MoveToFlushes_polygon(kind, s) ==
  kind \in {"Linestring", "Polygon"} /\ ~is_empty(s.current_coordinates)

\* self.geom_type == GeomType::Linestring && !self.current_coordinates.is_empty()
MoveToFlushes(kind, s) == kind = "Linestring" /\ ~is_empty(s.current_coordinates)

Unknown_arm_skip(data, kind, t, count) ==
  Loop(data, kind, [t EXCEPT !.state = ReadingCommand,
                             !.position = IF @ + count <= Len(data) THEN @ + count
                                          ELSE Len(data)])

\* the _ arm of match command_id; t already has the command consumed
Unknown_arm(data, kind, t, count) == Loop(data, kind, [t EXCEPT !.state = ReadingCommand])

\* the ReadingCommand arm once the stream is known not to be exhausted
ReadCommand(data, kind, s) ==
  LET command_integer == data[s.position + 1]
      command_id == command_integer % 8
      count == (command_integer \div 8) * DIMENSION
      t == [s EXCEPT !.position = @ + 1,
                     !.events = Append(@, Event("command", s, command_id, count))]
  IN CASE command_id = 1 ->
            IF MoveToFlushes(kind, s)
            THEN ReturnFrom([t EXCEPT !.current_coordinates = new_empty,
                                      !.state = ReadingParameters(count, command_id)],
                            OkResult(LineStringGeom(s.current_coordinates)))
            ELSE Loop(data, kind, [t EXCEPT !.state = ReadingParameters(count, command_id)])
       [] command_id = 2 ->
            Loop(data, kind, [t EXCEPT !.state = ReadingParameters(count, command_id)])
       [] command_id = 7 ->
            ClosePath(data, kind,
              [t EXCEPT !.empty_closes =
                 IF is_empty(s.current_coordinates) THEN @ + 1 ELSE @])
       [] OTHER -> Unknown_arm(data, kind, t, count)

\* history entry of one cursor addition: the component (1 = x, 2 = y), its value
\* before, the decoded delta and its value after
Tracked(axis, before, delta, after) ==
  [axis |-> axis, before |-> before, delta |-> delta, after |-> after]

PointPart_raw(x, y, transformed) == PointGeom(x, y)

\* the Point returned for one coordinate: temp_storage.push(x, y, transformed_coord)
\* and the first two elements of its transformed slice
PointPart(x, y, transformed) == PointGeom(transformed[1], transformed[2])

ConsumeParameter_twice(s) == [s EXCEPT !.position = @ + 2]

\* self.position += 1 of the parameter loop
ConsumeParameter(s) == [s EXCEPT !.position = @ + 1]

PointResume_undecremented(count, command_id) == ReadingParameters(count + 1, command_id)

PointResume_drop(count, command_id) == ReadingCommand

\* the state a Point yield leaves: count is the local copy after count -= 1
PointResume(count, command_id) ==
  IF count > 0 THEN ReadingParameters(count, command_id) ELSE ReadingCommand

\* the while loop of the ReadingParameters arm; count is the local copy
ReadParams(data, kind, s, count) ==
  IF count > 0 /\ s.position < Len(data)
  THEN LET integer_value == zigzag(data[s.position + 1])
           t == ConsumeParameter(s)
       IN IF count % DIMENSION = 0
          THEN ReadParams(data, kind,
                 [t EXCEPT !.cursor[1] = saturating_add(@, integer_value),
                           !.track = Append(@, Tracked(1, s.cursor[1], integer_value,
                                       saturating_add(s.cursor[1], integer_value)))],
                 count - 1)
          ELSE LET u == [t EXCEPT !.cursor[2] = saturating_add(@, integer_value),
                                  !.track = Append(@, Tracked(2, s.cursor[2], integer_value,
                                              saturating_add(s.cursor[2], integer_value)))]
                   x == as_f32(u.cursor[1])
                   y == as_f32(u.cursor[2])
                   transformed == transform(x, y, kind)
                   v == [u EXCEPT !.transforms = Append(@, Transformed(x, y, kind))]
               IN IF kind = "Point" /\ s.state.command_id = 1
                  THEN Return([v EXCEPT !.state = PointResume(count - 1, s.state.command_id)],
                              OkResult(PointPart(x, y, transformed)))
                  ELSE ReadParams(data, kind,
                         [v EXCEPT !.current_coordinates = push(@, x, y)], count - 1)
  ELSE Loop(data, kind, [s EXCEPT !.state = ReadingCommand])

Loop(data, kind, s) ==
  CASE s.state.name = "Initial" -> Loop(data, kind, [s EXCEPT !.state = ReadingCommand])
    [] s.state.name = "ReadingCommand" ->
         IF s.position >= Len(data)
         THEN finish_parsing(kind, s)
         ELSE ReadCommand(data, kind, s)
    [] s.state.name = "ReadingParameters" -> ReadParams(data, kind, s, s.state.count)
    [] OTHER -> Finished_arm(s)

parse_next(data, kind, s) ==
  IF kind = "Unknown" THEN Return(s, GeometryError) ELSE Loop(data, kind, s)

----------------------------------------------------------------------------
(* The eager decoder: parse_geometry of lib.rs (used by Reader::get_features) *)
(* and its copy in geometry.rs, which differ only in the last Polygon arm.    *)

Panic == [kind |-> "panic"]

\* twice the value the source returns; points is a list of <<x, y>>
RECURSIVE shoelace_sum(_, _, _, _)
shoelace_sum(points, i, v1, area) ==
  IF i > Len(points) THEN area
  ELSE shoelace_sum(points, i + 1, points[i],
         f32_op(area + f32_op(f32_op(points[i][2] - v1[2]) * f32_op(points[i][1] + v1[1]))))

shoelace_formula(points) == shoelace_sum(points, 1, Last(points), 0)

EagerPolygon(linestrings) == [exterior |-> Head(linestrings), interiors |-> Tail(linestrings)]

EagerStart ==
  [coordinates |-> <<>>, polygons |-> <<>>, linestrings |-> <<>>,
   cursor |-> <<0, 0>>, parameter_count |-> 0, failed |-> FALSE, track |-> <<>>]

\* coordinates.first() is None
EagerClosePathFails(e) == e.coordinates = <<>>

\* one iteration of "for value in geometry_data.iter()"
EagerStep(kind, e, value) ==
  IF e.parameter_count = 0
  THEN LET id == value % 8 IN
       CASE id = 1 ->
              LET f == [e EXCEPT !.parameter_count = (value \div 8) * DIMENSION] IN
              IF kind = "Linestring" /\ e.coordinates # <<>>
              THEN [f EXCEPT !.linestrings = Append(@, e.coordinates), !.coordinates = <<>>]
              ELSE f
         [] id = 2 -> [e EXCEPT !.parameter_count = (value \div 8) * DIMENSION]
         [] id = 7 ->
              IF EagerClosePathFails(e)
              THEN [e EXCEPT !.failed = TRUE]
              ELSE LET ring == Append(e.coordinates, Head(e.coordinates))
                       area == shoelace_formula(ring)
                       f == IF area > 0 /\ e.linestrings # <<>>
                            THEN [e EXCEPT !.polygons = Append(@, EagerPolygon(e.linestrings)),
                                           !.linestrings = <<>>]
                            ELSE e
                   IN [f EXCEPT !.linestrings = Append(@, ring), !.coordinates = <<>>]
         [] OTHER -> e
  ELSE LET integer_value == zigzag(value) IN
       IF e.parameter_count % DIMENSION = 0
       THEN [e EXCEPT !.cursor[1] = checked_add_clip(@, integer_value),
                      !.parameter_count = @ - 1,
                      !.track = Append(@, Tracked(1, e.cursor[1], integer_value,
                                  checked_add_clip(e.cursor[1], integer_value)))]
       ELSE LET f == [e EXCEPT !.cursor[2] = checked_add_clip(@, integer_value),
                               !.parameter_count = @ - 1,
                               !.track = Append(@, Tracked(2, e.cursor[2], integer_value,
                                           checked_add_clip(e.cursor[2], integer_value)))]
            IN [f EXCEPT !.coordinates = Append(@, <<as_f32(f.cursor[1]), as_f32(f.cursor[2])>>)]

RECURSIVE EagerLoop(_, _, _, _)
EagerLoop(data, kind, e, i) ==
  IF i > Len(data) \/ e.failed THEN e
  ELSE EagerLoop(data, kind, EagerStep(kind, e, data[i]), i + 1)

\* the final "match geom_type"; on_none is what the Polygon arm gives when
\* polygons.first() is None
EagerFinish(kind, e, on_none) ==
  CASE kind = "Linestring" ->
         IF e.linestrings # <<>>
         THEN OkResult([type |-> "MultiLineString",
                        lines |-> Append(e.linestrings, e.coordinates)])
         ELSE OkResult([type |-> "LineString", line |-> e.coordinates])
    [] kind = "Point" -> OkResult([type |-> "MultiPoint", points |-> e.coordinates])
    [] kind = "Polygon" ->
         IF e.linestrings # <<>>
         THEN OkResult([type |-> "MultiPolygon",
                        polygons |-> Append(e.polygons, EagerPolygon(e.linestrings))])
         ELSE IF e.polygons # <<>>
              THEN OkResult([type |-> "Polygon", polygon |-> Head(e.polygons)])
              ELSE on_none
    [] OTHER -> GeometryError

EagerDecode(data, kind, on_none) ==
  IF kind = "Unknown" THEN GeometryError
  ELSE LET e == EagerLoop(data, kind, EagerStart, 1) IN
       IF e.failed THEN GeometryError ELSE EagerFinish(kind, e, on_none)

\* lib.rs: None => Err(GeometryError)
parse_geometry(data, kind) == EagerDecode(data, kind, GeometryError)

\* geometry.rs: polygons.first().unwrap()
geometry_parse_geometry(data, kind) == EagerDecode(data, kind, Panic)

----------------------------------------------------------------------------
(* Tags, features and the Reader.  An Option is a sequence of length <= 1.  *)

TagsError == [kind |-> "err", error |-> "TagsError"]
DecodeError == [kind |-> "err", error |-> "DecodeError"]
NotFoundError == [kind |-> "err", error |-> "NotFound"]
VersionError(name, version) ==
  [kind |-> "err", error |-> "VersionError", name |-> name, version |-> version]

\* GeomType::try_from(i32) of the generated vector_tile module
GeomType_try_from(t) ==
  CASE t = 0 -> [kind |-> "ok", value |-> "Unknown"]
    [] t = 1 -> [kind |-> "ok", value |-> "Point"]
    [] t = 2 -> [kind |-> "ok", value |-> "Linestring"]
    [] t = 3 -> [kind |-> "ok", value |-> "Polygon"]
    [] OTHER -> DecodeError

\* the first Some(..) field of a tile Value, in the order the source tests them
map_value(value) ==
  IF value.string_value # <<>> THEN [String |-> value.string_value[1]]
  ELSE IF value.float_value # <<>> THEN [Float |-> value.float_value[1]]
  ELSE IF value.double_value # <<>> THEN [Double |-> value.double_value[1]]
  ELSE IF value.int_value # <<>> THEN [Int |-> value.int_value[1]]
  ELSE IF value.uint_value # <<>> THEN [UInt |-> value.uint_value[1]]
  ELSE IF value.sint_value # <<>> THEN [SInt |-> value.sint_value[1]]
  ELSE IF value.bool_value # <<>> THEN [Bool |-> value.bool_value[1]]
  ELSE [Null |-> TRUE]

MapInsert_keepfirst(m, k, v) ==
  [x \in DOMAIN m \cup {k} |-> IF x \in DOMAIN m THEN m[x] ELSE v]

\* HashMap::insert
MapInsert(m, k, v) == [x \in DOMAIN m \cup {k} |-> IF x = k THEN v ELSE m[x]]

EmptyMap == [x \in {} |-> TRUE]

RECURSIVE parse_tags_from_skip(_, _, _, _, _)
parse_tags_from_skip(tags, keys, values, i, res) ==
  IF i > Len(tags) THEN [kind |-> "ok", map |-> res]
  ELSE IF i + 1 > Len(tags) \/ tags[i] >= Len(keys) \/ tags[i + 1] >= Len(values)
       THEN parse_tags_from_skip(tags, keys, values, i + 2, res)
       ELSE parse_tags_from_skip(tags, keys, values, i + 2,
              MapInsert(res, keys[tags[i] + 1], map_value(values[tags[i + 1] + 1])))

\* the loop over tags.chunks(2), from the chunk that starts at tags[i]
RECURSIVE parse_tags_from(_, _, _, _, _)
parse_tags_from(tags, keys, values, i, res) ==
  IF i > Len(tags) THEN [kind |-> "ok", map |-> res]
  ELSE IF i + 1 > Len(tags) \/ tags[i] >= Len(keys) \/ tags[i + 1] >= Len(values)
       THEN TagsError
       ELSE parse_tags_from(tags, keys, values, i + 2,
              MapInsert(res, keys[tags[i] + 1], map_value(values[tags[i + 1] + 1])))

parse_tags_lenient(tags, keys, values) == [kind |-> "ok", map |-> EmptyMap]

parse_tags(tags, keys, values) == parse_tags_from(tags, keys, values, 1, EmptyMap)

\* Feature::from_raw: the geometry is a fresh, not yet advanced GeometryIterator
from_raw(layer, raw) ==
  IF raw.type # <<>>
  THEN LET gt == GeomType_try_from(raw.type[1]) IN
       IF gt.kind = "ok"
       THEN LET parsed_tags == parse_tags(raw.tags, layer.keys, layer.values) IN
            IF parsed_tags.kind = "ok"
            THEN [kind |-> "ok",
                  feature |-> [geometry |-> [geometry_data |-> raw.geometry,
                                             geom_type |-> gt.value,
                                             self |-> GeometryIterator_new],
                               properties |-> parsed_tags.map]]
            ELSE parsed_tags
       ELSE DecodeError
  ELSE NotFoundError

FeatureIterator_next_fn_retry(layer, i) ==
  IF i >= Len(layer.features)
  THEN [idx |-> i, item |-> NoneResult]
  ELSE LET r == from_raw(layer, layer.features[i + 1]) IN
       IF r.kind = "ok"
       THEN [idx |-> i + 1, item |-> [kind |-> "some", feature |-> r.feature]]
       ELSE [idx |-> i, item |-> NoneResult]

\* FeatureIterator::next on index i (0-based): the new idx and the returned Option
FeatureIterator_next_fn(layer, i) ==
  IF i >= Len(layer.features)
  THEN [idx |-> i, item |-> NoneResult]
  ELSE LET r == from_raw(layer, layer.features[i + 1]) IN
       [idx |-> i + 1,
        item |-> IF r.kind = "ok" THEN [kind |-> "some", feature |-> r.feature]
                 ELSE NoneResult]

EagerFeature_tagsfirst(layer, raw) ==
  IF raw.type # <<>>
  THEN LET gt == GeomType_try_from(raw.type[1]) IN
       IF gt.kind = "ok"
       THEN LET parsed_tags == parse_tags(raw.tags, layer.keys, layer.values) IN
            IF parsed_tags.kind # "ok" THEN parsed_tags
            ELSE LET parsed_geometry == parse_geometry(raw.geometry, gt.value) IN
                 IF parsed_geometry.kind # "ok" THEN parsed_geometry
                 ELSE [kind |-> "ok",
                       feature |-> [geometry |-> parsed_geometry.geom,
                                    id |-> raw.id,
                                    properties |-> parsed_tags.map]]
       ELSE DecodeError
  ELSE [kind |-> "skip"]

\* the body of the "for feature in layer.features" loop of Reader::get_features:
\* "skip" when the feature adds nothing and the loop goes on
EagerFeature(layer, raw) ==
  IF raw.type # <<>>
  THEN LET gt == GeomType_try_from(raw.type[1]) IN
       IF gt.kind = "ok"
       THEN LET parsed_geometry == parse_geometry(raw.geometry, gt.value) IN
            IF parsed_geometry.kind # "ok" THEN parsed_geometry
            ELSE LET parsed_tags == parse_tags(raw.tags, layer.keys, layer.values) IN
                 IF parsed_tags.kind # "ok" THEN parsed_tags
                 ELSE [kind |-> "ok",
                       feature |-> [geometry |-> parsed_geometry.geom,
                                    id |-> raw.id,
                                    properties |-> parsed_tags.map]]
       ELSE DecodeError
  ELSE [kind |-> "skip"]

RECURSIVE get_features_loop_skip(_, _, _)
get_features_loop_skip(layer, i, features) ==
  IF i > Len(layer.features) THEN [kind |-> "ok", features |-> features]
  ELSE LET r == EagerFeature(layer, layer.features[i]) IN
       IF r.kind = "ok"
       THEN get_features_loop_skip(layer, i + 1, Append(features, r.feature))
       ELSE get_features_loop_skip(layer, i + 1, features)

RECURSIVE get_features_loop(_, _, _)
get_features_loop(layer, i, features) ==
  IF i > Len(layer.features) THEN [kind |-> "ok", features |-> features]
  ELSE LET r == EagerFeature(layer, layer.features[i]) IN
       CASE r.kind = "ok" -> get_features_loop(layer, i + 1, Append(features, r.feature))
         [] r.kind = "skip" -> get_features_loop(layer, i + 1, features)
         [] OTHER -> r

get_features_strict(ls, layer_index) ==
  IF layer_index < Len(ls)
  THEN get_features_loop(ls[layer_index + 1], 1, <<>>)
  ELSE NotFoundError

\* Reader::get_features(layer_index), layer_index 0-based
get_features(ls, layer_index) ==
  IF layer_index < Len(ls)
  THEN get_features_loop(ls[layer_index + 1], 1, <<>>)
  ELSE [kind |-> "ok", features |-> <<>>]

RECURSIVE get_layer_names_loop_filter(_, _, _)
get_layer_names_loop_filter(ls, i, layer_names) ==
  IF i > Len(ls) THEN [kind |-> "ok", names |-> layer_names]
  ELSE IF ls[i].version \in {1, 2}
       THEN get_layer_names_loop_filter(ls, i + 1, Append(layer_names, ls[i].name))
       ELSE get_layer_names_loop_filter(ls, i + 1, layer_names)

RECURSIVE get_layer_names_loop_prepend(_, _, _)
get_layer_names_loop_prepend(ls, i, layer_names) ==
  IF i > Len(ls) THEN [kind |-> "ok", names |-> layer_names]
  ELSE IF ls[i].version \in {1, 2}
       THEN get_layer_names_loop_prepend(ls, i + 1, <<ls[i].name>> \o layer_names)
       ELSE VersionError(ls[i].name, ls[i].version)

RECURSIVE get_layer_names_loop(_, _, _)
get_layer_names_loop(ls, i, layer_names) ==
  IF i > Len(ls) THEN [kind |-> "ok", names |-> layer_names]
  ELSE IF ls[i].version \in {1, 2}
       THEN get_layer_names_loop(ls, i + 1, Append(layer_names, ls[i].name))
       ELSE VersionError(ls[i].name, ls[i].version)

\* Reader::get_layer_names
get_layer_names(ls) == get_layer_names_loop(ls, 1, <<>>)

----------------------------------------------------------------------------
(* The command streams the decoders are run on *)

Segments ==
  { <<9, 2, 2, 18, 4, 0, 0, 4, 15>>,   \* MoveTo(1,1) LineTo(2,0)(0,2) ClosePath: area > 0
    <<9, 2, 2, 18, 0, 4, 4, 0, 15>>,   \* MoveTo(1,1) LineTo(0,2)(2,0) ClosePath: area < 0
    <<15>>,                            \* ClosePath alone
    <<10, 4, 1>>,                      \* LineTo(2,-1)
    <<17, 2, 0, 0, 2>>,                \* MoveTo x2: (1,0)(0,1); with ClosePath, a ring of area 0
    <<11>> }                           \* command id 3, count 1

Streams == { Flatten(ss) : ss \in SeqsUpTo(Segments, MaxSegs) }

----------------------------------------------------------------------------
(* The layers the Reader is run on *)

FeatureTypes == {<<>>, <<0>>, <<1>>, <<3>>, <<9>>}
\* ClosePath alone fails in every decoder; MoveTo(1,1) ClosePath decodes eagerly
\* for every kind, and closes a ring on an empty accumulator when streamed as Point
FeatureGeometries == {<<15>>, <<9, 2, 2, 15>>}
FeatureTags == {<<>>, <<0>>, <<1, 0>>}

RawFeatures ==
  [type : FeatureTypes, geometry : FeatureGeometries, tags : FeatureTags, id : {<<>>}]

LayerKeys == <<"a", "b">>
LayerValues ==
  << [string_value |-> <<"s">>, float_value |-> <<>>, double_value |-> <<>>,
      int_value |-> <<7>>, uint_value |-> <<>>, sint_value |-> <<>>,
      bool_value |-> <<>>] >>

Layers ==
  [version : {2, 3}, name : {"roads"}, features : SeqsUpTo(RawFeatures, MaxFeatures),
   keys : {LayerKeys}, values : {LayerValues}]

----------------------------------------------------------------------------
(* The state machine of one GeometryIterator and of the eager decoder *)

Self ==
  [position |-> position, cursor |-> cursor, current_coordinates |-> current_coordinates,
   pending_rings |-> pending_rings, state |-> state, closed |-> closed,
   empty_closes |-> empty_closes, track |-> track, events |-> events,
   transforms |-> transforms]

NotCalled == [kind |-> "notcalled"]

EagerNotCalled == [impl |-> "none", res |-> NotCalled]

InitDecoder ==
  /\ geometry_data \in Streams
  /\ geom_type \in GeomTypes
  /\ transformer = "IdentityTransform"
  /\ position = GeometryIterator_new.position
  /\ cursor = GeometryIterator_new.cursor
  /\ current_coordinates = GeometryIterator_new.current_coordinates
  /\ pending_rings = GeometryIterator_new.pending_rings
  /\ state = GeometryIterator_new.state
  /\ closed = <<>>
  /\ empty_closes = 0
  /\ track = <<>>
  /\ events = <<>>
  /\ transforms = <<>>
  /\ result = NotCalled
  /\ yielded = <<>>
  /\ advances = 0
  /\ eager = EagerNotCalled

IdleReader ==
  /\ layers = <<>>
  /\ idx = 0
  /\ returned = <<>>
  /\ iter_result = NotCalled
  /\ drained = FALSE
  /\ features_result = [layer_index |-> 0, res |-> NotCalled]
  /\ names_result = NotCalled

IdleTags ==
  /\ feature_tags = <<>>
  /\ layer_keys = <<>>
  /\ layer_values = <<>>
  /\ tags_result = NotCalled

IdleStorage ==
  /\ input_points = <<>>
  /\ storage = new_empty

\* the second iterator: its fields, and as history the items it returned and the
\* number of next() calls made on it
IdleOther == other = [self |-> GeometryIterator_new, yielded |-> <<>>, advances |-> 0]

IdleZigzag ==
  /\ parameter_integer = [i \in 0..31 |-> 0]
  /\ decoded_integer = <<>>

Idle == IdleTags /\ IdleStorage /\ IdleOther /\ IdleZigzag

Init == InitDecoder /\ IdleReader /\ Idle

\* the calls of next() that are followed: two more after a None, MaxErrors under
\* kind Unknown, whose every call returns the error
CanAdvance ==
  /\ advances - Len(yielded) < MaxNones
  /\ geom_type = "Unknown" => advances < MaxErrors

\* Iterator::next for GeometryIterator
GeometryIterator_next ==
  /\ CanAdvance
  /\ \E r \in {parse_next(geometry_data, geom_type, Self)} :
       /\ position' = r.self.position
       /\ cursor' = r.self.cursor
       /\ current_coordinates' = r.self.current_coordinates
       /\ pending_rings' = r.self.pending_rings
       /\ state' = r.self.state
       /\ closed' = r.self.closed
       /\ empty_closes' = r.self.empty_closes
       /\ track' = r.self.track
       /\ events' = r.self.events
       /\ transforms' = r.self.transforms
       /\ result' = r.result
       /\ yielded' = IF r.result.kind = "none" THEN yielded ELSE Append(yielded, r.result)
  /\ advances' = advances + 1
  /\ UNCHANGED <<geometry_data, geom_type, transformer, eager, reader_vars, aux_vars>>

\* a call of lib.rs parse_geometry on the same stream and kind
ParseGeometry ==
  /\ eager' = [impl |-> "lib", res |-> parse_geometry(geometry_data, geom_type)]
  /\ UNCHANGED <<geometry_data, geom_type, transformer, position, cursor,
                 current_coordinates, pending_rings, state, result, yielded, closed,
                 empty_closes, track, events, transforms, advances, reader_vars,
                 aux_vars>>

\* a call of geometry.rs parse_geometry on the same stream and kind
GeometryParseGeometry ==
  /\ eager' = [impl |-> "geometry", res |-> geometry_parse_geometry(geometry_data, geom_type)]
  /\ UNCHANGED <<geometry_data, geom_type, transformer, position, cursor,
                 current_coordinates, pending_rings, state, result, yielded, closed,
                 empty_closes, track, events, transforms, advances, reader_vars,
                 aux_vars>>

Next == GeometryIterator_next \/ ParseGeometry \/ GeometryParseGeometry

Spec == Init /\ [][Next]_vars

----------------------------------------------------------------------------
(* One GeometryIterator that its caller keeps advancing *)

MaxFairSegs == 2      \* fragments of the stream of the iterator that is kept advancing

FairStreams == { Flatten(ss) : ss \in SeqsUpTo(Segments, MaxFairSegs) }

InitFair ==
  /\ geometry_data \in FairStreams
  /\ geom_type \in GeomTypes
  /\ transformer = "IdentityTransform"
  /\ position = GeometryIterator_new.position
  /\ cursor = GeometryIterator_new.cursor
  /\ current_coordinates = GeometryIterator_new.current_coordinates
  /\ pending_rings = GeometryIterator_new.pending_rings
  /\ state = GeometryIterator_new.state
  /\ closed = <<>>
  /\ empty_closes = 0
  /\ track = <<>>
  /\ events = <<>>
  /\ transforms = <<>>
  /\ result = NotCalled
  /\ yielded = <<>>
  /\ advances = 0
  /\ eager = EagerNotCalled

InitFairSpec == InitFair /\ IdleReader /\ Idle

NextFair == GeometryIterator_next

\* a step that counts one more call of next(): in SpecFair, a GeometryIterator_next
\* step, enabled exactly when that action is
NextCalled == CanAdvance /\ advances' = advances + 1

\* the caller calls next() again as long as calls are followed
SpecFair == InitFairSpec /\ [][NextFair]_vars /\ WF_advances(NextCalled)

----------------------------------------------------------------------------
(* One GeometryIterator over a stream that may end anywhere, inside the      *)
(* parameter list of a command included                                      *)

MaxTruncSegs == 2     \* fragments of the stream before it is cut

\* every prefix of every stream of at most MaxTruncSegs fragments
TruncStreams ==
  UNION { { SubSeq(data, 1, n) : n \in 0..Len(data) } :
            data \in { Flatten(ss) : ss \in SeqsUpTo(Segments, MaxTruncSegs) } }

InitTrunc ==
  /\ geometry_data \in TruncStreams
  /\ geom_type \in GeomTypes
  /\ transformer = "IdentityTransform"
  /\ position = GeometryIterator_new.position
  /\ cursor = GeometryIterator_new.cursor
  /\ current_coordinates = GeometryIterator_new.current_coordinates
  /\ pending_rings = GeometryIterator_new.pending_rings
  /\ state = GeometryIterator_new.state
  /\ closed = <<>>
  /\ empty_closes = 0
  /\ track = <<>>
  /\ events = <<>>
  /\ transforms = <<>>
  /\ result = NotCalled
  /\ yielded = <<>>
  /\ advances = 0
  /\ eager = EagerNotCalled

InitTruncSpec == InitTrunc /\ IdleReader /\ Idle

NextTrunc == GeometryIterator_next

SpecTrunc == InitTruncSpec /\ [][NextTrunc]_vars

----------------------------------------------------------------------------
(* One GeometryIterator with one of several coordinate transforms *)

MaxTransformSegs == 2 \* fragments of the stream of the iterator with a transform

InitTransform ==
  /\ geometry_data \in { Flatten(ss) : ss \in SeqsUpTo(Segments, MaxTransformSegs) }
  /\ geom_type \in GeomTypes
  /\ transformer \in Transforms
  /\ position = GeometryIterator_new.position
  /\ cursor = GeometryIterator_new.cursor
  /\ current_coordinates = GeometryIterator_new.current_coordinates
  /\ pending_rings = GeometryIterator_new.pending_rings
  /\ state = GeometryIterator_new.state
  /\ closed = <<>>
  /\ empty_closes = 0
  /\ track = <<>>
  /\ events = <<>>
  /\ transforms = <<>>
  /\ result = NotCalled
  /\ yielded = <<>>
  /\ advances = 0
  /\ eager = EagerNotCalled

InitTransformSpec == InitTransform /\ IdleReader /\ Idle

NextTransform == GeometryIterator_next

SpecTransform == InitTransformSpec /\ [][NextTransform]_vars

----------------------------------------------------------------------------
(* The decoders on streams whose parameters reach the ends of the i32 range *)

MaxCursorSegs == 3    \* a stream is the concatenation of at most MaxCursorSegs commands

\* zigzag encodings of +1, of 2^30-1 and of -2^30
CursorParams == {2, 2147483646, 2147483647}

\* MoveTo(d, d), LineTo(d, d) with d > 0 and a MoveTo with deltas of opposite signs
CursorSegments ==
  { <<9, a, a>> : a \in CursorParams }
    \cup { <<10, a, a>> : a \in CursorParams \ {2147483647} }
    \cup { <<9, 2147483646, 2147483647>> }

CursorStreams == { Flatten(ss) : ss \in SeqsUpTo(CursorSegments, MaxCursorSegs) }

InitCursor ==
  /\ geometry_data \in CursorStreams
  /\ geom_type \in GeomTypes
  /\ transformer = "IdentityTransform"
  /\ position = GeometryIterator_new.position
  /\ cursor = GeometryIterator_new.cursor
  /\ current_coordinates = GeometryIterator_new.current_coordinates
  /\ pending_rings = GeometryIterator_new.pending_rings
  /\ state = GeometryIterator_new.state
  /\ closed = <<>>
  /\ empty_closes = 0
  /\ track = <<>>
  /\ events = <<>>
  /\ transforms = <<>>
  /\ result = NotCalled
  /\ yielded = <<>>
  /\ advances = 0
  /\ eager = EagerNotCalled

InitCursorSpec == InitCursor /\ IdleReader /\ Idle

SpecCursor == InitCursorSpec /\ [][Next]_vars

----------------------------------------------------------------------------
(* The decoders on Polygon streams with rings far from the origin *)

MaxRingSegs == 3      \* small rings that precede the last ring of a stream

\* a ring of positive and a ring of negative area, each leaving the cursor at +(3, 3)
SmallRings == { <<9, 2, 2, 18, 4, 0, 0, 4, 15>>, <<9, 2, 2, 18, 0, 4, 4, 0, 15>> }

\* nothing, or one last ring: MoveTo(-2, 6827) LineTo(7061, -6827) ClosePath,
\* two coordinates; MoveTo(4094, 4093) LineTo(2, 1) LineTo(0, 1) ClosePath, a
\* thin counter-clockwise triangle
LastRings ==
  { <<>>, <<9, 3, 13654, 10, 14122, 13653, 15>>, <<9, 8188, 8186, 18, 4, 2, 0, 2, 15>> }

RingStreams ==
  { Flatten(ss) \o l : ss \in SeqsUpTo(SmallRings, MaxRingSegs), l \in LastRings }

InitRings ==
  /\ geometry_data \in RingStreams
  /\ geom_type = "Polygon"
  /\ transformer = "IdentityTransform"
  /\ position = GeometryIterator_new.position
  /\ cursor = GeometryIterator_new.cursor
  /\ current_coordinates = GeometryIterator_new.current_coordinates
  /\ pending_rings = GeometryIterator_new.pending_rings
  /\ state = GeometryIterator_new.state
  /\ closed = <<>>
  /\ empty_closes = 0
  /\ track = <<>>
  /\ events = <<>>
  /\ transforms = <<>>
  /\ result = NotCalled
  /\ yielded = <<>>
  /\ advances = 0
  /\ eager = EagerNotCalled

InitRingsSpec == InitRings /\ IdleReader /\ Idle

SpecRings == InitRingsSpec /\ [][Next]_vars

----------------------------------------------------------------------------
(* Two GeometryIterator instances over one command stream, each with its own *)
(* storage and state, advanced in any interleaving                           *)

MaxTwoSegs == 2       \* fragments of the stream the two iterators share

TwoStreams == { Flatten(ss) : ss \in SeqsUpTo(Segments, MaxTwoSegs) }

InitTwo ==
  /\ geometry_data \in TwoStreams
  /\ geom_type \in GeomTypes
  /\ transformer = "IdentityTransform"
  /\ position = GeometryIterator_new.position
  /\ cursor = GeometryIterator_new.cursor
  /\ current_coordinates = GeometryIterator_new.current_coordinates
  /\ pending_rings = GeometryIterator_new.pending_rings
  /\ state = GeometryIterator_new.state
  /\ closed = <<>>
  /\ empty_closes = 0
  /\ track = <<>>
  /\ events = <<>>
  /\ transforms = <<>>
  /\ result = NotCalled
  /\ yielded = <<>>
  /\ advances = 0
  /\ eager = EagerNotCalled

Other_next_shared ==
  /\ other.advances - Len(other.yielded) < MaxNones
  /\ geom_type = "Unknown" => other.advances < MaxErrors
  /\ \E r \in {parse_next(geometry_data, geom_type, other.self)} :
       /\ other' = [self |-> r.self,
                    yielded |-> IF r.result.kind = "none" THEN other.yielded
                                ELSE Append(other.yielded, r.result),
                    advances |-> other.advances + 1]
       /\ cursor' = r.self.cursor
  /\ UNCHANGED <<geometry_data, geom_type, transformer, position, current_coordinates,
                 pending_rings, state, result, yielded, closed, empty_closes,
                 track, events, transforms, advances, eager, reader_vars, tags_vars,
                 storage_vars, zigzag_vars>>

\* Iterator::next on the second GeometryIterator
Other_next ==
  /\ other.advances - Len(other.yielded) < MaxNones
  /\ geom_type = "Unknown" => other.advances < MaxErrors
  /\ \E r \in {parse_next(geometry_data, geom_type, other.self)} :
       other' = [self |-> r.self,
                 yielded |-> IF r.result.kind = "none" THEN other.yielded
                             ELSE Append(other.yielded, r.result),
                 advances |-> other.advances + 1]
  /\ UNCHANGED <<decoder_vars, reader_vars, tags_vars, storage_vars, zigzag_vars>>

NextTwo == GeometryIterator_next \/ Other_next

InitTwoSpec == InitTwo /\ IdleReader /\ Idle

SpecTwo == InitTwoSpec /\ [][NextTwo]_vars

----------------------------------------------------------------------------
(* The state machine of a Reader and of one FeatureIterator over layer 0 *)

IdleDecoder ==
  /\ geometry_data = <<>>
  /\ geom_type = "Point"
  /\ transformer = "IdentityTransform"
  /\ position = GeometryIterator_new.position
  /\ cursor = GeometryIterator_new.cursor
  /\ current_coordinates = GeometryIterator_new.current_coordinates
  /\ pending_rings = GeometryIterator_new.pending_rings
  /\ state = GeometryIterator_new.state
  /\ closed = <<>>
  /\ empty_closes = 0
  /\ track = <<>>
  /\ events = <<>>
  /\ transforms = <<>>
  /\ result = NotCalled
  /\ yielded = <<>>
  /\ advances = 0
  /\ eager = EagerNotCalled

InitReader ==
  /\ layers \in { <<l>> : l \in Layers }
  /\ idx = 0
  /\ returned = <<>>
  /\ iter_result = NotCalled
  /\ drained = FALSE
  /\ features_result = [layer_index |-> 0, res |-> NotCalled]
  /\ names_result = NotCalled

InitLayer == IdleDecoder /\ InitReader /\ Idle

\* Iterator::next for FeatureIterator
FeatureIterator_next ==
  /\ \E r \in {FeatureIterator_next_fn(layers[1], idx)} :
       /\ idx' = r.idx
       /\ iter_result' = r.item
       /\ returned' = IF r.item.kind = "some" THEN Append(returned, r.item.feature)
                      ELSE returned
       /\ drained' = (drained \/ r.item.kind = "none")
  /\ UNCHANGED <<layers, features_result, names_result, decoder_vars, aux_vars>>

\* Reader::get_features(layer_index)
GetFeatures(layer_index) ==
  /\ features_result' = [layer_index |-> layer_index,
                         res |-> get_features(layers, layer_index)]
  /\ UNCHANGED <<layers, idx, returned, iter_result, drained, names_result,
                 decoder_vars, aux_vars>>

NextLayer == FeatureIterator_next \/ \E layer_index \in 0..1 : GetFeatures(layer_index)

SpecLayer == InitLayer /\ [][NextLayer]_vars

----------------------------------------------------------------------------
(* parse_tags on its own: the tag list of one feature against the key and   *)
(* value dictionaries of its layer                                           *)

MaxTags == 4          \* length of a feature's tag list

TagKeys == {<<>>, <<"a">>, <<"a", "b">>, <<"a", "a">>}

StringValue(v) ==
  [string_value |-> <<v>>, float_value |-> <<>>, double_value |-> <<>>,
   int_value |-> <<>>, uint_value |-> <<>>, sint_value |-> <<>>, bool_value |-> <<>>]

TagValues == {<<>>, <<StringValue("s")>>, <<StringValue("s"), StringValue("t")>>}

InitTags ==
  /\ feature_tags \in SeqsUpTo(0..2, MaxTags)
  /\ layer_keys \in TagKeys
  /\ layer_values \in TagValues
  /\ tags_result = NotCalled

\* a call of parse_tags(tags, keys, values)
ParseTags ==
  /\ tags_result' = parse_tags(feature_tags, layer_keys, layer_values)
  /\ UNCHANGED <<feature_tags, layer_keys, layer_values, storage_vars, other,
                 zigzag_vars, decoder_vars, reader_vars>>

NextTags == ParseTags

InitTagsSpec ==
  IdleDecoder /\ IdleReader /\ InitTags /\ IdleStorage /\ IdleOther /\ IdleZigzag

SpecTags == InitTagsSpec /\ [][NextTags]_vars

----------------------------------------------------------------------------
(* A Reader over a tile of several layers *)

MaxLayers == 3        \* layers per tile

PointFeature == [type |-> <<1>>, geometry |-> <<9, 2, 2>>, tags |-> <<0, 0>>, id |-> <<>>]

TileLayers ==
  { [version |-> v, name |-> n, features |-> IF n = "roads" THEN <<PointFeature>> ELSE <<>>,
     keys |-> LayerKeys, values |-> LayerValues] : v \in {1, 2, 3}, n \in {"roads", "water"} }

InitTile ==
  /\ layers \in SeqsUpTo(TileLayers, MaxLayers)
  /\ idx = 0
  /\ returned = <<>>
  /\ iter_result = NotCalled
  /\ drained = FALSE
  /\ features_result = [layer_index |-> 0, res |-> NotCalled]
  /\ names_result = NotCalled

\* Reader::get_layer_names()
GetLayerNames ==
  /\ names_result' = get_layer_names(layers)
  /\ UNCHANGED <<layers, idx, returned, iter_result, drained, features_result,
                 decoder_vars, aux_vars>>

NextTile == GetLayerNames \/ \E layer_index \in 0..MaxLayers : GetFeatures(layer_index)

InitTileSpec == IdleDecoder /\ InitTile /\ Idle

SpecTile == InitTileSpec /\ [][NextTile]_vars

----------------------------------------------------------------------------
(* A FlatCoordinateStorage on its own, filled by push *)

MaxPoints == 3        \* coordinates pushed into the storage

\* the origin, a unit step, and points just past 2^12, where x * y needs more
\* than the 24 bits of an f32 significand
StoragePoints ==
  {<<0, 0>>, <<1, 0>>} \cup { <<x, y>> : x \in {4097, 4099}, y \in {4096, 4097, 4098} }

InitStorage ==
  /\ input_points \in SeqsUpTo(StoragePoints, MaxPoints)
  /\ storage = new_empty

\* storage.push(x, y, ..) with the next coordinate
Push ==
  /\ Len(storage.coords) < Len(input_points)
  /\ \E p \in {input_points[Len(storage.coords) + 1]} :
       storage' = push(storage, p[1], p[2])
  /\ UNCHANGED <<input_points, tags_vars, other, zigzag_vars, decoder_vars, reader_vars>>

NextStorage == Push

InitStorageSpec ==
  IdleDecoder /\ IdleReader /\ IdleTags /\ InitStorage /\ IdleOther /\ IdleZigzag

SpecStorage == InitStorageSpec /\ [][NextStorage]_vars

----------------------------------------------------------------------------
(* The decoding of one parameter integer, over the whole u32 range *)

HalfEdge == 2         \* values taken next to 0, to 2^15 and to 2^16 - 1 in each 16-bit half

Halves ==
  (0..HalfEdge) \cup ((32768 - HalfEdge)..(32768 + HalfEdge))
    \cup ((65535 - HalfEdge)..65535)

\* the i32 values whose encodings are decoded
EdgeValues ==
  ((-HalfEdge)..HalfEdge) \cup { I32Max - k : k \in 0..HalfEdge }
    \cup { I32Min + k : k \in 0..HalfEdge }
    \cup {1073741823, 1073741824, -1073741824, -1073741825}

\* the encoder of the tile format: (n << 1) ^ (n >> 31)
zigzag_encode(n) == word_xor(word_shl(i32_word(n), 1), i32_shr(i32_word(n), 31))

ParameterIntegers ==
  { u32_word(hi, lo) : hi \in Halves, lo \in Halves }
    \cup { zigzag_encode(n) : n \in EdgeValues }

InitZigzag ==
  /\ parameter_integer \in ParameterIntegers
  /\ decoded_integer = <<>>

\* let integer_value = ((parameter_integer >> 1) as i32) ^ -((parameter_integer & 1) as i32)
DecodeParameter ==
  /\ decoded_integer = <<>>
  /\ decoded_integer' = <<zigzag_u32(parameter_integer)>>
  /\ UNCHANGED <<parameter_integer, decoder_vars, reader_vars, tags_vars, storage_vars,
                 other>>

NextZigzag == DecodeParameter

InitZigzagSpec ==
  IdleDecoder /\ IdleReader /\ IdleTags /\ IdleStorage /\ IdleOther /\ InitZigzag

SpecZigzag == InitZigzagSpec /\ [][NextZigzag]_vars

----------------------------------------------------------------------------
(* Properties of the streaming and the eager geometry decoders (Spec) *)

IsPolygonPart(r) == r.kind = "ok" /\ r.geom.type = "Polygon"

\* the Polygon parts among the items yielded so far, in order
PolygonParts == [i \in 1..Len(SelectSeq(yielded, IsPolygonPart)) |->
                   SelectSeq(yielded, IsPolygonPart)[i].geom]

Drained == state.name = "Finished"

\* C1: a Polygon stream whose rings 2..N all have closed area <= 0 yields, once
\* drained, exactly one Polygon part: ring 1 as exterior (whatever its own
\* area), rings 2..N as holes in stream order.
C1_SinglePolygon ==
  (/\ geom_type = "Polygon"
   /\ Drained
   /\ Len(closed) >= 1
   /\ \A k \in 2..Len(closed) : get_accumulated_area(closed[k]) <= 0)
  => PolygonParts = << PolygonGeom(closed[1], Tail(closed)) >>

C1_Witness ==
  /\ geom_type = "Polygon"
  /\ Drained
  /\ Len(closed) = 2
  /\ get_accumulated_area(closed[1]) < 0
  /\ get_accumulated_area(closed[2]) = 0
  /\ PolygonParts = << PolygonGeom(closed[1], <<closed[2]>>) >>

\* C2: in a Polygon stream, the advance on which ClosePath closes a ring k > 1
\* of positive area returns the Polygon made of the rings pending at that point
\* (first as exterior, the rest as holes) and leaves ring k as the only pending
\* ring.
C2_PositiveRingFlushes ==
  [][ (/\ geom_type = "Polygon"
       /\ Len(closed') > Len(closed)
       /\ Len(closed') > 1
       /\ get_accumulated_area(Last(closed')) > 0)
      => LET pending == pending_rings \o SubSeq(closed', Len(closed) + 1, Len(closed') - 1)
         IN /\ result' = OkResult(PolygonGeom(Head(pending), Tail(pending)))
            /\ pending_rings' = << Last(closed') >> ]_vars

C2_Witness ==
  /\ geom_type = "Polygon"
  /\ ~Drained
  /\ Len(closed) = 3
  /\ get_accumulated_area(Last(closed)) > 0
  /\ pending_rings = << Last(closed) >>
  /\ result = OkResult(PolygonGeom(closed[1], <<closed[2]>>))

\* the eager decoder reads a ClosePath command while its coordinates are empty
RECURSIVE EagerEmptyClose(_, _, _, _)
EagerEmptyClose(data, kind, e, i) ==
  IF i > Len(data) \/ e.failed THEN FALSE
  ELSE \/ (e.parameter_count = 0 /\ data[i] % 8 = 7 /\ e.coordinates = <<>>)
       \/ EagerEmptyClose(data, kind, EagerStep(kind, e, data[i]), i + 1)

NoEmptyRing(g) ==
  g.type = "Polygon" => /\ g.exterior.coords # <<>>
                        /\ \A h \in 1..Len(g.holes) : g.holes[h].coords # <<>>

EagerRings ==
  IF eager.res.kind = "ok" /\ eager.res.geom.type = "MultiPolygon"
  THEN UNION { {eager.res.geom.polygons[i].exterior}
               \cup { eager.res.geom.polygons[i].interiors[j] :
                        j \in 1..Len(eager.res.geom.polygons[i].interiors) } :
               i \in 1..Len(eager.res.geom.polygons) }
  ELSE {}

\* C3: a ClosePath read on an empty accumulator makes the advance of the
\* streaming decoder return a geometry error and makes parse_geometry return a
\* geometry error; no ring without coordinates is ever produced and there is no
\* panic.
C3_ClosePathOnEmpty ==
  /\ [][ empty_closes' > empty_closes => result' = GeometryError ]_vars
  /\ [](\A i \in 1..Len(closed) : closed[i].coords # <<>>)
  /\ [](\A i \in 1..Len(yielded) : yielded[i].kind = "ok" => NoEmptyRing(yielded[i].geom))
  /\ []((eager.impl # "none" /\ EagerEmptyClose(geometry_data, geom_type, EagerStart, 1))
          => eager.res = GeometryError)
  /\ [](\A r \in EagerRings : r # <<>>)

C3_Witness ==
  /\ geom_type = "Polygon"
  /\ empty_closes = 2
  /\ Len(closed) = 1
  /\ result = GeometryError
  /\ eager.impl = "lib"
  /\ eager.res = GeometryError

\* C4 (as claimed): after the streaming decoder has returned a geometry error,
\* every later advance returns none.
C4_ErrorIsFatal ==
  [][ ((\E i \in 1..Len(yielded) : yielded[i].kind = "err") /\ advances' > advances)
      => result'.kind = "none" ]_vars

NoClosePathInteger == \A i \in 1..Len(geometry_data) : geometry_data[i] % 8 # 7

\* C5 (as claimed): eager decoding of a Polygon-kind stream that closes no ring
\* returns a geometry error and never panics.
C5_NoRingIsError ==
  (eager.impl # "none" /\ geom_type = "Polygon" /\ NoClosePathInteger)
  => eager.res = GeometryError

----------------------------------------------------------------------------
(* Properties of the FeatureIterator and of Reader::get_features (SpecLayer) *)

TheLayer == layers[1]

\* the features of the layer that from_raw accepts, in stored order
RECURSIVE ParsedFrom(_, _)
ParsedFrom(layer, i) ==
  IF i > Len(layer.features) THEN <<>>
  ELSE LET r == from_raw(layer, layer.features[i]) IN
       (IF r.kind = "ok" THEN <<r.feature>> ELSE <<>>) \o ParsedFrom(layer, i + 1)

\* C6 (as claimed): when FeatureIterator::next first returns None, the features
\* returned so far are exactly the features of the layer that parse, in stored
\* order.
C6_DrainYieldsAllParsed ==
  [][ (~drained /\ drained') => returned' = ParsedFrom(TheLayer, 1) ]_vars

\* an advance of the geometry iterator g returns an error within fuel advances
RECURSIVE DrainHasError(_, _, _, _)
DrainHasError(data, kind, s, fuel) ==
  IF fuel = 0 THEN FALSE
  ELSE LET r == parse_next(data, kind, s) IN
       CASE r.result.kind = "err" -> TRUE
         [] r.result.kind = "none" -> FALSE
         [] OTHER -> DrainHasError(data, kind, r.self, fuel - 1)

GeometryFails(g) ==
  DrainHasError(g.geometry_data, g.geom_type, g.self, Len(g.geometry_data) + 1)

\* C7 (as claimed): every feature the FeatureIterator returns has a geometry
\* that decodes without error.
C7_ReturnedGeometryDecodes ==
  \A i \in 1..Len(returned) : ~GeometryFails(returned[i].geometry)

TagsWellFormed(tags, keys, values) ==
  /\ Len(tags) % 2 = 0
  /\ \A j \in 1..Len(tags) :
       IF j % 2 = 1 THEN tags[j] < Len(keys) ELSE tags[j] < Len(values)

KindOf(t) == CASE t = 0 -> "Unknown" [] t = 1 -> "Point"
               [] t = 2 -> "Linestring" [] t = 3 -> "Polygon" [] OTHER -> "unmapped"

\* C7 (amended): every feature the FeatureIterator returns comes from a stored
\* feature examined so far whose kind field is present and maps to a GeomType
\* and whose tag list is well-formed; its geometry is a GeometryIterator over the
\* stored stream that has not been advanced, whatever that stream and kind.
C7_ReturnedParsed ==
  \A i \in 1..Len(returned) :
    \E j \in 1..idx :
      LET raw == TheLayer.features[j] IN
      /\ raw.type # <<>>
      /\ raw.type[1] \in 0..3
      /\ TagsWellFormed(raw.tags, TheLayer.keys, TheLayer.values)
      /\ returned[i].geometry.geometry_data = raw.geometry
      /\ returned[i].geometry.geom_type = KindOf(raw.type[1])
      /\ returned[i].geometry.self = GeometryIterator_new

C7_Witness ==
  /\ Len(returned) = 2
  /\ returned[1].geometry.geom_type = "Unknown"
  /\ returned[2].geometry.geom_type = "Point"
  /\ returned[2].geometry.geometry_data = <<15>>
  /\ GeometryFails(returned[1].geometry)
  /\ GeometryFails(returned[2].geometry)

Called(layer_index) ==
  /\ features_result.res # NotCalled
  /\ features_result.layer_index = layer_index

EagerOutcomes == [i \in 1..Len(TheLayer.features) |->
                    EagerFeature(TheLayer, TheLayer.features[i])]

Failing == { i \in 1..Len(TheLayer.features) : EagerOutcomes[i].kind = "err" }

RECURSIVE DecodedFrom(_)
DecodedFrom(i) ==
  IF i > Len(TheLayer.features) THEN <<>>
  ELSE (IF EagerOutcomes[i].kind = "ok" THEN <<EagerOutcomes[i].feature>> ELSE <<>>)
       \o DecodedFrom(i + 1)

\* C8: get_features is all-or-nothing: if decoding fails for some feature of
\* the layer the call returns the error of the first failing feature in stored
\* order and no feature; otherwise it returns the decoded features in stored
\* order.
C8_AllOrNothing ==
  Called(0) =>
    IF Failing # {}
    THEN features_result.res =
           EagerOutcomes[CHOOSE i \in Failing : \A j \in Failing : i <= j]
    ELSE features_result.res = [kind |-> "ok", features |-> DecodedFrom(1)]

C8_Witness ==
  /\ Called(0)
  /\ Len(TheLayer.features) = 2
  /\ EagerOutcomes[1].kind = "ok"
  /\ EagerOutcomes[2] = TagsError
  /\ features_result.res = TagsError

\* C9 (as claimed): get_features returns an error when a feature of the layer
\* has no geometry-kind field.
C9_MissingKindIsError ==
  (Called(0) /\ \E j \in 1..Len(TheLayer.features) : TheLayer.features[j].type = <<>>)
  => features_result.res.kind = "err"

\* C10 (as claimed): get_features on a layer whose version is not 1 or 2 fails
\* with a version error carrying the layer's name and version.
C10_UnsupportedVersionFails ==
  (Called(0) /\ TheLayer.version \notin {1, 2})
  => features_result.res = VersionError(TheLayer.name, TheLayer.version)

----------------------------------------------------------------------------
(* Properties of parse_tags (SpecTags) *)

TagsCalled == tags_result # NotCalled

TagsMalformed ==
  \/ Len(feature_tags) % 2 = 1
  \/ \E j \in 1..Len(feature_tags) : j % 2 = 1 /\ feature_tags[j] >= Len(layer_keys)
  \/ \E j \in 1..Len(feature_tags) : j % 2 = 0 /\ feature_tags[j] >= Len(layer_values)

\* a Point feature carrying the tag list, in a layer with the two dictionaries
TaggedFeature ==
  [type |-> <<1>>, geometry |-> <<9, 2, 2>>, tags |-> feature_tags, id |-> <<>>]

TaggedLayer ==
  [version |-> 2, name |-> "roads", features |-> <<TaggedFeature>>,
   keys |-> layer_keys, values |-> layer_values]

\* C11: parse_tags returns the tags error exactly when the tag list has odd
\* length, or a key index is >= the number of keys, or a value index is >= the
\* number of values; the feature that carries the list then fails as a whole
\* with that error, in the lazy and in the eager path, and with an empty key or
\* value dictionary every non-empty tag list fails.
C11_TagsErrorIff ==
  TagsCalled =>
    /\ (tags_result = TagsError) <=> TagsMalformed
    /\ tags_result # TagsError => tags_result.kind = "ok"
    /\ TagsMalformed =>
         /\ from_raw(TaggedLayer, TaggedFeature) = TagsError
         /\ EagerFeature(TaggedLayer, TaggedFeature) = TagsError
         /\ get_features(<<TaggedLayer>>, 0) = TagsError
    /\ ((layer_keys = <<>> \/ layer_values = <<>>) /\ feature_tags # <<>>)
         => tags_result = TagsError

\* a list whose first pair resolves and whose second pair does not
C11_Witness ==
  /\ TagsCalled
  /\ Len(feature_tags) = 4
  /\ feature_tags[1] < Len(layer_keys) /\ feature_tags[2] < Len(layer_values)
  /\ feature_tags[4] >= Len(layer_values)
  /\ tags_result = TagsError

\* the pairs of the tag list, 1-based
TagPairs == 1..(Len(feature_tags) \div 2)

PairKey(j) == layer_keys[feature_tags[2 * j - 1] + 1]

PairValue(j) == map_value(layer_values[feature_tags[2 * j] + 1])

\* C12: for an even-length tag list with all indices in bounds, parse_tags
\* returns a map whose key set is exactly the keys its pairs name, each key
\* mapped to the value of the last pair in list order that names it; the empty
\* list gives the empty map.
C12_LastPairWins ==
  (TagsCalled /\ ~TagsMalformed) =>
    /\ tags_result.kind = "ok"
    /\ DOMAIN tags_result.map = { PairKey(j) : j \in TagPairs }
    /\ \A j \in TagPairs :
         (\A k \in TagPairs : k > j => PairKey(k) # PairKey(j))
         => tags_result.map[PairKey(j)] = PairValue(j)
    /\ feature_tags = <<>> => tags_result.map = EmptyMap

\* the same key string named twice, through two key indices, with two values
C12_Witness ==
  /\ TagsCalled /\ ~TagsMalformed
  /\ Len(feature_tags) = 4
  /\ feature_tags[1] # feature_tags[3]
  /\ PairKey(1) = PairKey(2)
  /\ PairValue(1) # PairValue(2)
  /\ tags_result.map[PairKey(2)] = PairValue(2)

----------------------------------------------------------------------------
(* Properties of Reader::get_layer_names (SpecTile) *)

NamesCalled == names_result # NotCalled

\* the stored positions of the layers whose version is neither 1 nor 2
Unsupported == { i \in 1..Len(layers) : layers[i].version \notin {1, 2} }

\* C13: if any layer of the tile has a version other than 1 or 2,
\* get_layer_names returns the version error with the name and version of the
\* first such layer in stored order, and so no name at all.
C13_VersionAllOrNothing ==
  (NamesCalled /\ Unsupported # {}) =>
    LET i == CHOOSE i \in Unsupported : \A j \in Unsupported : i <= j
    IN names_result = VersionError(layers[i].name, layers[i].version)

\* a supported layer, then two unsupported layers with different names
C13_Witness ==
  /\ NamesCalled
  /\ Len(layers) = 3
  /\ Unsupported = {2, 3}
  /\ layers[2].name # layers[3].name
  /\ names_result.kind = "err"

\* C14: when every layer has version 1 or 2, get_layer_names returns one name
\* per layer in stored order, and the name at position i is the name of the
\* layer whose features get_features(i) returns.
C14_NamesInStoredOrder ==
  (NamesCalled /\ Unsupported = {}) =>
    /\ names_result = [kind |-> "ok", names |-> [i \in 1..Len(layers) |-> layers[i].name]]
    /\ (features_result.res # NotCalled /\ features_result.layer_index < Len(layers)) =>
         \E l \in {layers[features_result.layer_index + 1]} :
           /\ l.name = names_result.names[features_result.layer_index + 1]
           /\ features_result.res = get_features_loop(l, 1, <<>>)

\* two layers of different names and contents, the second one decoded
C14_Witness ==
  /\ NamesCalled /\ Unsupported = {}
  /\ Len(layers) >= 2
  /\ names_result.names[1] = "water" /\ names_result.names[2] = "roads"
  /\ features_result.layer_index = 1
  /\ features_result.res.kind = "ok"
  /\ Len(features_result.res.features) = 1

----------------------------------------------------------------------------
(* Properties of the cursor arithmetic (SpecCursor) *)

EagerCalled == eager.impl # "none"

\* the cursor additions parse_geometry makes on the stream
EagerTrack ==
  IF geom_type = "Unknown" THEN <<>>
  ELSE EagerLoop(geometry_data, geom_type, EagerStart, 1).track

\* the exact sum of the deltas added to a component by the first i entries, as
\* <<sum>>, or <<>> once a running sum has left the i32 range
RECURSIVE ExactSum(_, _, _)
ExactSum(tr, axis, i) ==
  IF i = 0 THEN <<0>>
  ELSE LET prev == ExactSum(tr, axis, i - 1) IN
       IF prev = <<>> \/ tr[i].axis # axis THEN prev
       ELSE IF Overflows(prev[1], tr[i].delta) \/ Underflows(prev[1], tr[i].delta)
            THEN <<>>
            ELSE <<prev[1] + tr[i].delta>>

CursorExact(tr) ==
  \A i \in 1..Len(tr) :
    (ExactSum(tr, 1, i) # <<>> /\ ExactSum(tr, 2, i) # <<>>)
    => tr[i].after = ExactSum(tr, tr[i].axis, i)[1]

\* the value the last addition on the component left, 0 if there was none
RECURSIVE LastAfter(_, _, _)
LastAfter(tr, axis, i) ==
  IF i = 0 THEN 0
  ELSE IF tr[i].axis = axis THEN tr[i].after ELSE LastAfter(tr, axis, i - 1)

\* C15: while the running sums of the decoded deltas stay inside the i32 range,
\* the cursor component after each addition is the exact sum of the deltas added
\* to it since the start of the feature, across commands, in the streaming
\* decoder (whose cursor field holds the value of the last addition) and in the
\* eager decoder.
C15_CursorIsExactSum ==
  /\ CursorExact(track)
  /\ cursor = <<LastAfter(track, 1, Len(track)), LastAfter(track, 2, Len(track))>>
  /\ EagerCalled => CursorExact(EagerTrack)

\* MoveTo(1,1) LineTo(1,1), fully decoded by both decoders
C15_Witness ==
  /\ geometry_data = <<9, 2, 2, 10, 2, 2, 9, 2147483646, 2147483647>>
  /\ Len(track) = 6
  /\ cursor = <<1073741825, -1073741822>>
  /\ EagerCalled /\ Len(EagerTrack) = 6 /\ EagerTrack[6].after = -1073741822

PositiveOverflow(entry) == Overflows(entry.before, entry.delta)

NegativeOverflow(entry) == Underflows(entry.before, entry.delta)

\* C16: an addition whose exact sum lies above i32::MAX leaves the component at
\* exactly i32::MAX = 2^31-1, in the streaming and in the eager decoder.
C16_PositiveOverflowPins ==
  /\ \A i \in 1..Len(track) : PositiveOverflow(track[i]) => track[i].after = I32Max
  /\ (\E i \in 1..Len(track) : track[i].axis = 1 /\ PositiveOverflow(track[i])
        /\ \A j \in (i + 1)..Len(track) : track[j].axis # 1)
      => cursor[1] = I32Max
  /\ EagerCalled =>
       \A i \in 1..Len(EagerTrack) :
         PositiveOverflow(EagerTrack[i]) => EagerTrack[i].after = I32Max

C16_Witness ==
  /\ \E i \in 1..Len(track) : PositiveOverflow(track[i])
  /\ cursor[2] = I32Max
  /\ EagerCalled
  /\ \E i \in 1..Len(EagerTrack) : PositiveOverflow(EagerTrack[i])

\* C17 (as claimed): every overflowing addition, above i32::MAX or below
\* i32::MIN, leaves the component at i32::MAX, in both decoders.
C17_OverflowClampsToMax ==
  /\ \A i \in 1..Len(track) :
       (PositiveOverflow(track[i]) \/ NegativeOverflow(track[i]))
       => track[i].after = I32Max
  /\ EagerCalled =>
       \A i \in 1..Len(EagerTrack) :
         (PositiveOverflow(EagerTrack[i]) \/ NegativeOverflow(EagerTrack[i]))
         => EagerTrack[i].after = I32Max

----------------------------------------------------------------------------
(* Properties of the coordinate storage (SpecStorage) *)

\* the sum over i = 1..n of x_i * y_(i+1) - x_(i+1) * y_i with p_(n+1) = p_1, in
\* exact integer arithmetic: twice the shoelace area of the closed ring
RECURSIVE ExactShoelace(_, _)
ExactShoelace(ps, i) ==
  IF i > Len(ps) THEN 0
  ELSE LET p == ps[i]
           q == IF i = Len(ps) THEN ps[1] ELSE ps[i + 1]
       IN p[1] * q[2] - q[1] * p[2] + ExactShoelace(ps, i + 1)

\* C18 (as claimed): after n >= 2 pushes into an empty storage its area is the
\* shoelace area of the ring with its closing edge, and equals the eager
\* decoder's shoelace_formula on the same points followed by the first; with
\* fewer than 2 points it is 0.
C18_AreaIsShoelace ==
  IF Len(storage.coords) >= 2
  THEN /\ get_accumulated_area(storage) = ExactShoelace(storage.coords, 1)
       /\ get_accumulated_area(storage)
            = shoelace_formula(Append(storage.coords, Head(storage.coords)))
  ELSE get_accumulated_area(storage) = 0

----------------------------------------------------------------------------
(* Properties of the terminal state of the streaming decoder (Spec) *)

\* C19: once the decoder is in state Finished, every further next() returns
\* None and changes neither the state, the position, the cursor, the
\* accumulator nor the pending rings.
C19_FinishedIsTerminal ==
  [][ (state.name = "Finished" /\ advances' > advances)
      => /\ result' = NoneResult
         /\ UNCHANGED <<state, position, cursor, current_coordinates, pending_rings>>
    ]_vars

\* a decoder that consumed its stream, yielded a part and returned None twice:
\* the second None was returned in state Finished
C19_Witness ==
  /\ state.name = "Finished"
  /\ Len(yielded) >= 1
  /\ advances = Len(yielded) + 2
  /\ position = Len(geometry_data) /\ position > 0
  /\ result = NoneResult

----------------------------------------------------------------------------
(* Properties of two iterators over one stream (SpecTwo) *)

\* a single GeometryIterator run alone: its fields and the items it returned
\* after n calls of next()
RECURSIVE Solo(_)
Solo(n) ==
  IF n = 0 THEN [self |-> GeometryIterator_new, yielded |-> <<>>]
  ELSE LET before == Solo(n - 1)
           r == parse_next(geometry_data, geom_type, before.self)
       IN [self |-> r.self,
           yielded |-> IF r.result.kind = "none" THEN before.yielded
                       ELSE Append(before.yielded, r.result)]

----------------------------------------------------------------------------
(* Properties of the streaming decoder, command by command (Spec) *)

\* a step of Iterator::next on the first GeometryIterator
Advance == advances' = advances + 1

\* the command entry under which cursor addition j was made: the last command read
\* before it
Owner(ev, j) ==
  CHOOSE k \in 1..Len(ev) :
    /\ ev[k].event = "command" /\ ev[k].ntrack < j
    /\ \A m \in (k + 1)..Len(ev) : ~(ev[m].event = "command" /\ ev[m].ntrack < j)

\* addition j completes an (x, y) pair
Completes(tr, j) == tr[j].axis = 2

\* the coordinate pair completed by addition j, as the f32 values pushed or returned
PairAt(tr, j) == <<as_f32(LastAfter(tr, 1, j)), as_f32(tr[j].after)>>

\* the pairs completed by additions from..to, in order, under a MoveTo (moveto =
\* TRUE) or under any other command (moveto = FALSE)
RECURSIVE PairsOf(_, _, _, _, _)
PairsOf(tr, ev, from, to, moveto) ==
  IF from > to THEN <<>>
  ELSE IF Completes(tr, to) /\ ((ev[Owner(ev, to)].id = 1) = moveto)
       THEN Append(PairsOf(tr, ev, from, to - 1, moveto), PairAt(tr, to))
       ELSE PairsOf(tr, ev, from, to - 1, moveto)

\* every coordinate that ever entered the accumulator, in order
RECURSIVE Accumulated(_, _)
Accumulated(rings, acc) ==
  IF rings = <<>> THEN acc.coords
  ELSE Head(rings).coords \o Accumulated(Tail(rings), acc)

\* C21: under kind Point, an advance completes at most one (x, y) pair of a
\* MoveTo, that pair is the last thing the advance consumes and the advance
\* returns it as a Point part; a Point part is returned for no other reason; the
\* advance leaves ReadingParameters with the remaining count of that MoveTo (or
\* ReadingCommand when none remains), and the next advance, if the stream holds
\* another pair, yields the next Point from there; no pair of a MoveTo enters
\* the accumulator.
C21_PointPerMoveToPair ==
  [][(geom_type = "Point" /\ Advance) =>
       LET J == { j \in (Len(track) + 1)..Len(track') :
                    Completes(track', j) /\ events'[Owner(events', j)].id = 1 }
       IN /\ Cardinality(J) <= 1
          /\ \A j \in J :
                LET e == events'[Owner(events', j)]
                    remaining == e.count - (j - e.ntrack)
                IN /\ j = Len(track')
                   /\ result' = OkResult(PointGeom(PairAt(track', j)[1], PairAt(track', j)[2]))
                   /\ state' = IF remaining > 0 THEN ReadingParameters(remaining, 1)
                                ELSE ReadingCommand
          /\ (result'.kind = "ok" /\ result'.geom.type = "Point") => J # {}
          /\ (/\ state.name = "ReadingParameters" /\ state.command_id = 1
              /\ position + DIMENSION <= Len(geometry_data))
             => /\ Cardinality(J) = 1
                /\ position' = position + DIMENSION
          /\ Accumulated(closed', current_coordinates') = PairsOf(track', events', 1, Len(track'), FALSE)
    ]_vars

\* MoveTo with repeat 2: the second Point has just been returned, by the advance
\* after the one that returned the first
C21_Witness ==
  /\ geom_type = "Point"
  /\ geometry_data = <<17, 2, 0, 0, 2>>
  /\ advances = 2
  /\ yielded = <<OkResult(PointGeom(1, 0)), OkResult(PointGeom(1, 1))>>
  /\ state = ReadingCommand

\* the pairs completed by additions from..to, in order
RECURSIVE AllPairs(_, _, _)
AllPairs(tr, from, to) ==
  IF from > to THEN <<>>
  ELSE IF Completes(tr, to)
       THEN Append(AllPairs(tr, from, to - 1), PairAt(tr, to))
       ELSE AllPairs(tr, from, to - 1)

\* C22: a MoveTo read under kind Linestring while the accumulator is non-empty
\* makes the advance return the accumulated coordinates as one LineString, with
\* no parameter of the MoveTo consumed, and leaves an empty accumulator of area 0
\* and the state ReadingParameters of that MoveTo; any other MoveTo (accumulator
\* empty, or kind Point or Polygon) returns nothing and leaves the accumulator
\* as it found it: what the next command or finish finds there is what the MoveTo
\* found plus the pairs its own parameters pushed.
C22_MoveToFlushesLineString ==
  [][Advance =>
       \A k \in (Len(events) + 1)..Len(events') :
         LET e == events'[k] IN
         (e.event = "command" /\ e.id = 1) =>
           IF geom_type = "Linestring" /\ ~is_empty(e.acc)
           THEN /\ e.res = OkResult(LineStringGeom(e.acc))
                /\ k = Len(events')
                /\ result' = e.res
                /\ position' = e.at + 1
                /\ Len(track') = e.ntrack
                /\ is_empty(current_coordinates')
                /\ get_accumulated_area(current_coordinates') = 0
                /\ state' = ReadingParameters(e.count, 1)
           ELSE /\ e.res = NoneResult
                /\ LET to == IF k < Len(events') THEN events'[k + 1].ntrack ELSE Len(track')
                       found == IF k < Len(events') THEN events'[k + 1].acc
                                ELSE current_coordinates'
                   IN found.coords =
                        e.acc.coords \o (IF geom_type = "Point" THEN <<>>
                                         ELSE AllPairs(track', e.ntrack + 1, to))
    ]_vars

\* LineTo(2,-1) MoveTo x2: the first advance has stopped at the MoveTo and
\* returned the line string accumulated so far
C22_Witness ==
  /\ geom_type = "Linestring"
  /\ geometry_data = <<10, 4, 1, 17, 2, 0, 0, 2>>
  /\ advances = 1
  /\ result.kind = "ok" /\ result.geom.type = "LineString"
  /\ result.geom.line.coords = <<<<2, -1>>>>
  /\ position = 4
  /\ state = ReadingParameters(4, 1)

\* the part due at the end of the stream
FinalPart(kind, acc, pending) ==
  IF kind = "Linestring" /\ ~is_empty(acc) THEN OkResult(LineStringGeom(acc))
  ELSE IF kind = "Polygon" /\ pending # <<>>
       THEN OkResult(PolygonGeom(pending[1], SubSeq(pending, 2, Len(pending))))
       ELSE NoneResult

\* C23: an advance that finds the stream exhausted in ReadingCommand, at its
\* start or after the commands it decodes, ends in Finished and returns the final
\* part: under Linestring the accumulated coordinates iff there are any, under
\* Polygon the pending rings (first as exterior, the rest as holes) iff there are
\* any, under Point nothing.  An advance that returns None has always done so.
C23_ExhaustedFinishes ==
  [][(Advance /\ geom_type # "Unknown") =>
       /\ (state.name \in {"Initial", "ReadingCommand"} /\ position >= Len(geometry_data))
          => /\ state' = Finished
             /\ result' = FinalPart(geom_type, current_coordinates, pending_rings)
             /\ position' = position /\ cursor' = cursor
       /\ \A k \in (Len(events) + 1)..Len(events') :
            LET e == events'[k] IN
            e.event = "finish" =>
              /\ k = Len(events')
              /\ e.at = Len(geometry_data) /\ position' = e.at
              /\ state' = Finished
              /\ e.res = FinalPart(geom_type, e.acc, e.pending)
              /\ result' = e.res
              /\ geom_type = "Point" => result' = NoneResult
              /\ geom_type = "Linestring" => is_empty(current_coordinates')
              /\ geom_type = "Polygon" => pending_rings' = <<>>
       /\ (result' = NoneResult /\ state.name # "Finished")
          => (state' = Finished /\ Last(events').event = "finish")
    ]_vars

\* an exterior ring and a hole are pending when the stream ends: the advance
\* returns them as the final Polygon
C23_Witness ==
  /\ geom_type = "Polygon"
  /\ geometry_data = <<9, 2, 2, 18, 4, 0, 0, 4, 15, 9, 2, 2, 18, 0, 4, 4, 0, 15>>
  /\ state = Finished
  /\ advances = 1
  /\ result.kind = "ok" /\ result.geom.type = "Polygon"
  /\ Len(result.geom.holes) = 1
  /\ Last(events).event = "finish" /\ Len(Last(events).pending) = 2

----------------------------------------------------------------------------
(* Properties of the ring classification (SpecRings) *)

\* what the entry after entry k found pending, or what is pending now
PendingAfter(ev, k) == IF k < Len(ev) THEN ev[k + 1].pending ELSE pending_rings

\* C24 (as claimed): in every Polygon part the streaming decoder has returned
\* each hole has closed area <= 0 and, from the second part on, the exterior has
\* closed area > 0; a ring of one or two coordinates closed while a ring is
\* pending is appended to the pending rings as a hole.
C24_HolesNonPositive ==
  /\ \A i \in 1..Len(yielded) :
       (yielded[i].kind = "ok" /\ yielded[i].geom.type = "Polygon") =>
         /\ \A h \in 1..Len(yielded[i].geom.holes) :
              get_accumulated_area(yielded[i].geom.holes[h]) <= 0
         /\ (\E j \in 1..(i - 1) : yielded[j].kind = "ok")
            => get_accumulated_area(yielded[i].geom.exterior) > 0
  /\ \A k \in 1..Len(events) :
       (/\ events[k].event = "command" /\ events[k].id = 7
        /\ events[k].pending # <<>>
        /\ Len(events[k].acc.coords) \in {1, 2})
       => PendingAfter(events, k) = Append(events[k].pending, events[k].acc)

\* the polygons of an eager Polygon or MultiPolygon result
EagerPolygons(g) == IF g.type = "MultiPolygon" THEN g.polygons ELSE <<g.polygon>>

\* a ring of the streaming decoder with its first coordinate repeated at the end
ClosedRing(ring) == Append(ring.coords, Head(ring.coords))

\* the iterator has been advanced to Finished and every item was a part
DrainedOk ==
  /\ state = Finished
  /\ \A i \in 1..Len(yielded) : yielded[i].kind = "ok"

NoOverflow ==
  \A i \in 1..Len(track) : ~PositiveOverflow(track[i]) /\ ~NegativeOverflow(track[i])

\* C25 (as claimed): on a Polygon stream that neither decoder fails on and on
\* which no cursor addition overflows, the eager decoder returns as many polygons
\* as the drained streaming decoder returned Polygon parts, and the i-th polygon
\* has the exterior and the holes, in order, of the i-th part, each with the
\* first coordinate repeated at the end.
C25_SameRingGrouping ==
  (/\ geom_type = "Polygon" /\ DrainedOk /\ NoOverflow
   /\ EagerCalled /\ eager.res.kind = "ok")
  => LET polys == EagerPolygons(eager.res.geom) IN
     /\ Len(polys) = Len(yielded)
     /\ \A i \in 1..Len(polys) :
          /\ polys[i].exterior = ClosedRing(yielded[i].geom.exterior)
          /\ Len(polys[i].interiors) = Len(yielded[i].geom.holes)
          /\ \A h \in 1..Len(polys[i].interiors) :
               polys[i].interiors[h] = ClosedRing(yielded[i].geom.holes[h])

----------------------------------------------------------------------------
(* Properties relating the eager and the streaming decoder on line strings (Spec) *)

\* the line strings of an eager LineString or MultiLineString result
EagerLines(g) == IF g.type = "MultiLineString" THEN g.lines ELSE <<g.line>>

\* the LineString parts among the first n items returned, in order
RECURSIVE LineStringParts(_, _)
LineStringParts(ys, n) ==
  IF n = 0 THEN <<>>
  ELSE IF ys[n].kind = "ok" /\ ys[n].geom.type = "LineString"
       THEN Append(LineStringParts(ys, n - 1), ys[n].geom.line.coords)
       ELSE LineStringParts(ys, n - 1)

\* C26 (as claimed): on a Linestring stream the eager decoder succeeds on, its
\* line strings (the single LineString or the members of the MultiLineString)
\* are, in number and coordinate for coordinate, the LineString parts the
\* streaming decoder returned until it finished.
C26_SameLineStrings ==
  (/\ geom_type = "Linestring" /\ state = Finished
   /\ EagerCalled /\ eager.res.kind = "ok")
  => EagerLines(eager.res.geom) = LineStringParts(yielded, Len(yielded))

----------------------------------------------------------------------------
(* Properties of the commands that are neither MoveTo, LineTo nor ClosePath (Spec) *)

\* C27: a command integer whose id is not 1, 2 or 7 consumes that one integer
\* only: its handling returns nothing, and the next thing the decoder does is
\* read the integer right after it as a command (or finish, at the end of the
\* stream), finding the cursor, the accumulator, the pending rings and the
\* number of cursor additions as the command found them.
C27_UnknownCommandSkipped ==
  \A k \in 1..Len(events) :
    (events[k].event = "command" /\ events[k].id \notin {1, 2, 7}) =>
      /\ events[k].res = NoneResult
      /\ k < Len(events)
      /\ events[k + 1].at = events[k].at + 1
      /\ events[k + 1].event =
           (IF events[k].at + 1 < Len(geometry_data) THEN "command" ELSE "finish")
      /\ events[k + 1].event = "command"
         => events[k + 1].id = geometry_data[events[k].at + 2] % 8
      /\ events[k + 1].cursor = events[k].cursor
      /\ events[k + 1].acc = events[k].acc
      /\ events[k + 1].pending = events[k].pending
      /\ events[k + 1].ntrack = events[k].ntrack

\* a command of id 3 and count 1 in front of LineTo(2,-1): the LineTo is read
\* as a command and its coordinate returned
C27_Witness ==
  /\ geom_type = "Linestring"
  /\ geometry_data = <<11, 10, 4, 1>>
  /\ state = Finished
  /\ events[1].id = 3 /\ events[1].count = 2
  /\ events[2].id = 2 /\ events[2].at = 1
  /\ Len(yielded) = 1 /\ yielded[1].geom.line.coords = <<<<2, -1>>>>

----------------------------------------------------------------------------
(* Properties of the cursor across commands (Spec) *)

\* the cursor after the first n additions
CursorAfter(tr, n) == <<LastAfter(tr, 1, n), LastAfter(tr, 2, n)>>

\* C28: the cursor changes only by the additions made for parameter integers:
\* only a call of next() changes it, and only one that consumes a parameter; a
\* call makes one addition per parameter integer it consumes; every addition
\* starts from the value the previous addition to that component left, 0 for
\* the first, whatever commands, yields or ring closings lie between; and every
\* command read and the final finish find the cursor the last addition left.
C28_CursorOnlyByParameters ==
  [][/\ cursor' # cursor => (Advance /\ Len(track') > Len(track))
     /\ Advance =>
          /\ Len(track') - Len(track)
               = (position' - position)
                 - Cardinality({ k \in (Len(events) + 1)..Len(events') :
                                   events'[k].event = "command" })
          /\ \A i \in 1..Len(track') :
               track'[i].before = LastAfter(track', track'[i].axis, i - 1)
          /\ cursor' = CursorAfter(track', Len(track'))
          /\ \A k \in 1..Len(events') :
               events'[k].cursor = CursorAfter(track', events'[k].ntrack)
    ]_vars

\* two rings of a polygon: the second ring starts at (4, 4), its MoveTo(1, 1)
\* taken from the cursor (3, 3) the first ring left, and the finish leaves the
\* cursor where the second ring ended
C28_Witness ==
  /\ geom_type = "Polygon"
  /\ geometry_data = <<9, 2, 2, 18, 4, 0, 0, 4, 15, 9, 2, 2, 18, 0, 4, 4, 0, 15>>
  /\ state = Finished
  /\ Len(closed) = 2
  /\ closed[1].coords = <<<<1, 1>>, <<3, 1>>, <<3, 3>>>>
  /\ closed[2].coords[1] = <<4, 4>>
  /\ cursor = <<6, 6>>

----------------------------------------------------------------------------
(* Properties of the zigzag decoding (SpecZigzag) *)

\* the integer part of half the u32: bits 1..31 as a number
HalfOf(w) == LowValue(u32_shr(w, 1), 31)

\* C29: the integer decoded from a parameter integer raw is raw / 2 when raw is
\* even and -(raw + 1) / 2, that is -(raw - 1) / 2 - 1, when raw is odd, over
\* the whole u32 range; on the raw values below 2^31 it is what the decoders
\* compute on numbers; and decoding the encoding (n << 1) ^ (n >> 31) of an i32
\* n gives n back, -2^31 included.
C29_ZigzagDecodes ==
  decoded_integer # <<>> =>
    /\ decoded_integer[1] = IF parameter_integer[0] = 0 THEN HalfOf(parameter_integer)
                          ELSE -HalfOf(parameter_integer) - 1
    /\ parameter_integer[31] = 0
       => decoded_integer[1] = zigzag(LowValue(parameter_integer, 31))
    /\ \A n \in EdgeValues :
         parameter_integer = zigzag_encode(n) => decoded_integer[1] = n

\* the encoding of -2^31, the u32 2^32 - 1, has been decoded
C29_Witness ==
  /\ parameter_integer = zigzag_encode(I32Min)
  /\ parameter_integer = u32_word(65535, 65535)
  /\ decoded_integer = <<I32Min>>

----------------------------------------------------------------------------
(* Properties of the order of decoding in Reader::get_features (SpecLayer) *)

\* the feature has a kind that maps to a GeomType and its geometry does not decode
EagerGeometryFails(raw) ==
  /\ raw.type # <<>>
  /\ GeomType_try_from(raw.type[1]).kind = "ok"
  /\ parse_geometry(raw.geometry, GeomType_try_from(raw.type[1]).value).kind # "ok"

\* the tag list has odd length or an index outside its dictionary
MalformedTags(tags, keys, values) ==
  \/ Len(tags) % 2 = 1
  \/ \E j \in 1..Len(tags) : j % 2 = 1 /\ tags[j] >= Len(keys)
  \/ \E j \in 1..Len(tags) : j % 2 = 0 /\ tags[j] >= Len(values)

\* the feature makes get_features fail
FeatureFails(layer, raw) ==
  /\ raw.type # <<>>
  /\ \/ GeomType_try_from(raw.type[1]).kind # "ok"
     \/ EagerGeometryFails(raw)
     \/ MalformedTags(raw.tags, layer.keys, layer.values)

\* C30: Reader::get_features decodes the geometry of a feature before its tags:
\* when the first feature of the layer that fails has a geometry that does not
\* decode, the call fails with the geometry error, also when the tag list of
\* that feature is malformed; the tags error is returned only for a feature
\* whose geometry decoded.
C30_GeometryBeforeTags ==
  (features_result.res # NotCalled /\ features_result.layer_index < Len(layers)) =>
    LET layer == layers[features_result.layer_index + 1] IN
    \A i \in 1..Len(layer.features) :
      (\A j \in 1..(i - 1) : ~FeatureFails(layer, layer.features[j])) =>
        /\ EagerGeometryFails(layer.features[i]) => features_result.res = GeometryError
        /\ (/\ MalformedTags(layer.features[i].tags, layer.keys, layer.values)
            /\ features_result.res = TagsError)
           => ~EagerGeometryFails(layer.features[i])

\* a Polygon feature whose geometry is a ClosePath on nothing and whose tag list
\* has odd length: get_features has failed with the geometry error
C30_Witness ==
  /\ features_result.res = GeometryError
  /\ features_result.layer_index = 0
  /\ Len(layers[1].features) >= 1
  /\ layers[1].features[1].type = <<3>>
  /\ layers[1].features[1].geometry = <<15>>
  /\ layers[1].features[1].tags = <<0>>

----------------------------------------------------------------------------
(* Termination of the streaming decoder (SpecFair) *)

\* C31: under a kind other than Unknown, an advance that returns a part or an
\* error has consumed at least one integer of the stream or has entered
\* Finished; the decoder never returns more items than the stream has integers
\* plus one; and a caller that keeps advancing is eventually returned None.
C31_EventuallyNone ==
  /\ [][(Advance /\ geom_type # "Unknown" /\ result'.kind # "none")
          => \/ position' > position
             \/ (state # Finished /\ state' = Finished)]_vars
  /\ [](geom_type # "Unknown" => Len(yielded) <= Len(geometry_data) + 1)
  /\ <>(geom_type = "Unknown" \/ result = NoneResult)

\* an error, then a part, then None: ClosePath on nothing, then a closed ring
C31_Witness ==
  /\ geom_type = "Polygon"
  /\ geometry_data = <<15, 9, 2, 2, 18, 4, 0, 0, 4, 15>>
  /\ advances = 3
  /\ Len(yielded) = 2
  /\ yielded[1] = GeometryError /\ yielded[2].kind = "ok"
  /\ result = NoneResult
  /\ state = Finished

----------------------------------------------------------------------------
(* Conservation of the decoded coordinates and rings (Spec) *)

\* C32 (as claimed): under kind Linestring, once the decoder has finished, the
\* LineString parts it returned, concatenated in the order returned, are the
\* (x, y) pairs decoded from the stream, in stream order: each pair is in
\* exactly one part.
C32_LineStringsKeepAllPairs ==
  (geom_type = "Linestring" /\ state = Finished)
  => Flatten(LineStringParts(yielded, Len(yielded))) = AllPairs(track, 1, Len(track))

\* the rings of the Polygon parts among the first n items returned, each part as
\* its exterior followed by its holes, in order
RECURSIVE PolygonRings(_, _)
PolygonRings(ys, n) ==
  IF n = 0 THEN <<>>
  ELSE IF ys[n].kind = "ok" /\ ys[n].geom.type = "Polygon"
       THEN PolygonRings(ys, n - 1) \o <<ys[n].geom.exterior>> \o ys[n].geom.holes
       ELSE PolygonRings(ys, n - 1)

\* the indices of the ClosePath entries of the history, in order
RECURSIVE ClosePaths(_, _)
ClosePaths(ev, n) ==
  IF n = 0 THEN <<>>
  ELSE IF ev[n].event = "command" /\ ev[n].id = 7
       THEN Append(ClosePaths(ev, n - 1), n)
       ELSE ClosePaths(ev, n - 1)

\* C33: under kind Polygon, once the decoder has finished without an error, the
\* rings of the Polygon parts it returned (each part as exterior, then holes),
\* in the order returned, are the rings closed by the ClosePath commands, in
\* stream order; the k-th ring holds every pair decoded between the ClosePath
\* before it and its own, whatever MoveTo lies between; and the pairs decoded
\* after the last ClosePath are still in the accumulator, in no part.
C33_PolygonsKeepAllRings ==
  (geom_type = "Polygon" /\ DrainedOk) =>
    LET cp == ClosePaths(events, Len(events))
        from(k) == IF k = 1 THEN 1 ELSE events[cp[k - 1]].ntrack + 1
        last_close == IF cp = <<>> THEN 0 ELSE events[cp[Len(cp)]].ntrack
    IN /\ PolygonRings(yielded, Len(yielded)) = closed
       /\ Len(closed) = Len(cp)
       /\ \A k \in 1..Len(cp) :
            closed[k].coords = AllPairs(track, from(k), events[cp[k]].ntrack)
       /\ current_coordinates.coords = AllPairs(track, last_close + 1, Len(track))

\* MoveTo x2 left unclosed, a ring of MoveTo LineTo x2 ClosePath, then a LineTo:
\* the one part has a ring of five coordinates and the last coordinate is in
\* the accumulator
C33_Witness ==
  /\ geom_type = "Polygon"
  /\ geometry_data = <<17, 2, 0, 0, 2, 9, 2, 2, 18, 4, 0, 0, 4, 15, 10, 4, 1>>
  /\ state = Finished
  /\ Len(yielded) = 1
  /\ Len(yielded[1].geom.exterior.coords) = 5
  /\ Len(current_coordinates.coords) = 1

----------------------------------------------------------------------------
(* The decoder at the end of the stream (SpecTrunc) *)

\* the number of coordinates in the Point and LineString parts among the first
\* n items returned
RECURSIVE PartCoordinates(_, _)
PartCoordinates(ys, n) ==
  IF n = 0 THEN 0
  ELSE PartCoordinates(ys, n - 1)
       + (IF ys[n].kind # "ok" THEN 0
          ELSE IF ys[n].geom.type = "Point" THEN 1
          ELSE IF ys[n].geom.type = "LineString" THEN Len(ys[n].geom.line.coords)
          ELSE 0)

\* the number of coordinates in the first n rings
RECURSIVE RingCoordinates(_, _)
RingCoordinates(rings, n) ==
  IF n = 0 THEN 0 ELSE RingCoordinates(rings, n - 1) + Len(rings[n].coords)

\* every coordinate the decoder has made so far: returned in a Point or
\* LineString part, swapped out into a ring, or still in the accumulator
Coordinates ==
  PartCoordinates(yielded, Len(yielded)) + RingCoordinates(closed, Len(closed))
  + Len(current_coordinates.coords)

\* the (x, y) pairs completed by the first n cursor additions
CompletePairs(tr, n) == Cardinality({ i \in 1..n : tr[i].axis = 2 })

\* the stream ends before the last parameter of the command of history entry k
EndsInside(k) ==
  /\ events[k].event = "command" /\ events[k].id \in {1, 2}
  /\ Len(geometry_data) - (events[k].at + 1) < events[k].count

\* C34: the decoder never reads beyond the end of the stream: position stays
\* within 0..length, never decreases, and a call of next() advances it by one
\* per integer read (command integers and parameter integers), each read at an
\* index below the length; and when the stream ends inside the parameter list
\* of a command, the decoder goes from that command straight to finish_parsing,
\* which returns no error, with every integer consumed; a dangling x parameter
\* has been added to cursor x, and there are as many coordinates as complete
\* (x, y) pairs.
C34_NeverReadsPastEnd ==
  /\ [](0 <= position /\ position <= Len(geometry_data))
  /\ [][/\ position' >= position
         /\ position' - position
              = Cardinality({ k \in (Len(events) + 1)..Len(events') :
                                events'[k].event = "command" })
                + (Len(track') - Len(track))
         /\ \A k \in (Len(events) + 1)..Len(events') :
              events'[k].event = "command" => events'[k].at < Len(geometry_data)
       ]_vars
  /\ [](Coordinates = CompletePairs(track, Len(track)))
  /\ [](\A k \in 1..Len(events) :
          EndsInside(k) =>
            (state.name = "ReadingParameters"
             \/ /\ state = Finished
                /\ k = Len(events) - 1
                /\ Last(events).event = "finish"
                /\ Last(events).res.kind # "err"
                /\ position = Len(geometry_data)
                /\ Len(track) - events[k].ntrack = Len(geometry_data) - (events[k].at + 1)
                /\ Len(track) % DIMENSION = 1
                   => /\ Last(track).axis = 1
                      /\ cursor[1] = Last(track).after
                      /\ Last(track).after
                           = saturating_add(Last(track).before,
                                            zigzag(Last(geometry_data)))))

\* MoveTo(1,1), then a LineTo of two coordinates cut after its first x: the
\* cursor is at (3, 1) and the one part has the one coordinate (1, 1)
C34_Witness ==
  /\ geom_type = "Linestring"
  /\ geometry_data = <<9, 2, 2, 18, 4>>
  /\ state = Finished
  /\ position = 5
  /\ cursor = <<3, 1>>
  /\ Len(track) = 3
  /\ Len(yielded) = 1
  /\ yielded[1].geom.line.coords = <<<<1, 1>>>>

----------------------------------------------------------------------------
(* The index of the FeatureIterator (SpecLayer) *)

\* what next() returns for the feature stored at index i (0-based)
ItemAt(i) ==
  LET r == from_raw(layers[1], layers[1].features[i + 1]) IN
  IF r.kind = "ok" THEN [kind |-> "some", feature |-> r.feature] ELSE NoneResult

\* C35: the FeatureIterator starts at idx 0; idx never exceeds the number of
\* features of the layer and never decreases; every step that changes anything
\* of the iterator while idx is below the number of features is a call of
\* next() that returns what parsing the feature stored at idx gives, adds it to
\* the features returned only if it parsed, and increases idx by one whether
\* it parsed or not, so that no feature is examined twice; and a step made
\* with idx equal to the number of features returns none, returns no feature
\* and leaves idx unchanged.
C35_IndexAdvancesByOne ==
  /\ idx = 0
  /\ [](0 <= idx /\ idx <= Len(layers[1].features))
  /\ [][<<idx, iter_result, returned, drained>>' # <<idx, iter_result, returned, drained>>
        => IF idx < Len(layers[1].features)
           THEN /\ idx' = idx + 1
                /\ iter_result' = ItemAt(idx)
                /\ returned' = IF ItemAt(idx).kind = "some"
                               THEN Append(returned, ItemAt(idx).feature)
                               ELSE returned
           ELSE /\ idx' = idx
                /\ iter_result' = NoneResult
                /\ returned' = returned
                /\ drained'
       ]_vars

\* a layer of two features of which the first does not parse and the second
\* does: both have been examined, one returned, and the call made at the end
\* has returned none
C35_Witness ==
  /\ Len(layers[1].features) = 2
  /\ ItemAt(0) = NoneResult
  /\ ItemAt(1).kind = "some"
  /\ idx = 2
  /\ returned = <<ItemAt(1).feature>>
  /\ iter_result = NoneResult

----------------------------------------------------------------------------
(* The coordinate transform in the streaming decoder (SpecTransform) *)

\* the calls of transform that one call per complete (x, y) pair makes, in order
TransformsOf(tr, kind) ==
  LET pairs == AllPairs(tr, 1, Len(tr)) IN
  [i \in 1..Len(pairs) |-> Transformed(pairs[i][1], pairs[i][2], kind)]

\* C36: the calls of transform made so far are exactly one per complete (x, y)
\* pair decoded, in order, each on the cursor position the pair left and with
\* the kind of the feature; and a call of next() that returns a Point has made
\* its last call of transform on the cursor position it leaves, and returns the
\* first two components of what the transform gives for that position: the
\* cursor position itself under IdentityTransform (and IdentityTransform3D),
\* and not the cursor position under ScaleTransform.
C36_PointIsTransformed ==
  /\ [](transforms = TransformsOf(track, geom_type))
  /\ [][(Advance /\ result'.kind = "ok" /\ result'.geom.type = "Point") =>
          LET x == as_f32(cursor'[1])
              y == as_f32(cursor'[2])
              output == transform(x, y, geom_type)
          IN /\ Len(transforms') > Len(transforms)
             /\ Last(transforms') = Transformed(x, y, geom_type)
             /\ result'.geom = PointGeom(output[1], output[2])
             /\ transformer \in {"IdentityTransform", "IdentityTransform3D"}
                  => result'.geom = PointGeom(x, y)
             /\ transformer = "ScaleTransform"
                  => /\ result'.geom = PointGeom(3 * x + 1, 3 * y + 1)
                     /\ result'.geom # PointGeom(2 * x, 2 * y)
       ]_vars

\* MoveTo x2 under ScaleTransform { scale: 1.5 }: the cursor positions (1, 0)
\* and (1, 1) are returned as the Points (2.0, 0.5) and (2.0, 2.0), here doubled
C36_Witness ==
  /\ geom_type = "Point"
  /\ transformer = "ScaleTransform"
  /\ geometry_data = <<17, 2, 0, 0, 2>>
  /\ Len(yielded) = 2
  /\ yielded[1].geom = PointGeom(4, 1)
  /\ yielded[2].geom = PointGeom(4, 4)
  /\ cursor = <<1, 1>>
  /\ transforms = <<Transformed(1, 0, "Point"), Transformed(1, 1, "Point")>>

----------------------------------------------------------------------------
(* Reader::get_features where there is nothing to decode (SpecTile) *)

----------------------------------------------------------------------------
(* The parameter count across a suspension (Spec) *)

\* C38: the count of every command read is even; whenever the decoder is left
\* in ReadingParameters between two calls its count is even, and under kind
\* Point it is there only after returning the Point of a MoveTo, with a
\* positive count; and the call of next() that resumes from ReadingParameters
\* with integers left in the stream adds the next integer of the stream to
\* cursor x and, if there is one, the integer after it to cursor y.
C38_SuspendsOnPairBoundary ==
  /\ [](\A k \in 1..Len(events) :
          events[k].event = "command" => events[k].count % DIMENSION = 0)
  /\ [](state.name = "ReadingParameters" =>
          /\ state.count % DIMENSION = 0
          /\ geom_type = "Point" =>
               /\ state.count > 0
               /\ state.command_id = 1
               /\ result.kind = "ok" /\ result.geom.type = "Point")
  /\ [][(Advance /\ state.name = "ReadingParameters" /\ state.count > 0
         /\ position < Len(geometry_data)) =>
          LET n == Len(track) IN
          /\ Len(track') > n
          /\ track'[n + 1].axis = 1
          /\ track'[n + 1].delta = zigzag(geometry_data[position + 1])
          /\ cursor'[1] = LastAfter(track', 1, Len(track'))
          /\ position + 1 < Len(geometry_data) =>
               /\ Len(track') > n + 1
               /\ track'[n + 2].axis = 2
               /\ track'[n + 2].delta = zigzag(geometry_data[position + 2])
       ]_vars

\* MoveTo x2 (1,0)(0,1) under kind Point: the first call returned (1, 0) and
\* left ReadingParameters with count 2, the second added 0 to cursor x and 1 to
\* cursor y and returned (1, 1)
C38_Witness ==
  /\ geom_type = "Point"
  /\ geometry_data = <<17, 2, 0, 0, 2>>
  /\ advances = 2
  /\ yielded = <<OkResult(PointGeom(1, 0)), OkResult(PointGeom(1, 1))>>
  /\ track[3] = Tracked(1, 1, 0, 1)
  /\ track[4] = Tracked(2, 0, 1, 1)
  /\ state = ReadingCommand

====
